---- MODULE Spec2Model ----
(***************************************************************************)
(* A model of the LLM council (backend/council.py, backend/storage.py,    *)
(* backend/config.py).                                                     *)
(*                                                                         *)
(* Spec     one run of run_full_council / run_full_council_with_history:  *)
(*          the three stages, the two fan-outs and the chairman call.     *)
(* SpecAgg  calculate_aggregate_rankings as a pure function of its        *)
(*          inputs, which Init draws from bounded sets.                   *)
(* SpecParse  parse_ranking_from_text on its own, over texts put together *)
(*          from a few pieces.                                            *)
(* SpecStore  the conversation files of backend/storage.py under calls of *)
(*          create_conversation, add_user_message, add_assistant_message, *)
(*          update_conversation_title, delete_conversation and            *)
(*          get_conversation_history, one call after another.             *)
(* SpecHist get_conversation_history on its own, over stored              *)
(*          conversations that Init draws from a bounded set.             *)
(* SpecCtx  build_conversation_context (backend/storage.py) with the      *)
(*          Summarizer it awaits, summarize_conversation_segment, and the *)
(*          model calls of the Summarizer's chain.                        *)
(*                                                                         *)
(* A text is a sequence of tokens: the literal "FINAL RANKING:", a         *)
(* literal "Response <Letter>", a digit, a period, a whitespace character  *)
(* or any other character ("x").  The two regular expressions of           *)
(* parse_ranking_from_text are matched token by token.                     *)
(*                                                                         *)
(* average_rank is kept in hundredths (150 is 1.5): round(avg, 2) is a     *)
(* number of two decimals.                                                 *)
(*                                                                         *)
(* backend/openrouter.py (query_model, query_models_parallel) is not part  *)
(* of the sources at hand; its behaviour is taken from the interface       *)
(* description: a call returns a response or null, never raises, and the   *)
(* fan-out returns one entry per requested model, in the order requested.  *)
(***************************************************************************)
EXTENDS Integers, Sequences, FiniteSets, TLC

VARIABLES
    variant,              \* "plain": run_full_council, "history": run_full_council_with_history
    conversation_history, \* the conversation_history argument
    pc,                   \* where the run is: start, stage1, stage2, stage3, done, raised
    responses1,           \* Stage 1 fan-out: model -> slot
    responses2,           \* Stage 2 fan-out: model -> slot
    chairman,             \* the chairman call's slot
    queries,              \* every model query issued so far, in order
    stage1_results,
    label_to_model,
    stage2_results,
    aggregate_rankings,
    result,               \* the returned tuple, <<>> until the run returns
    agg_pc,               \* SpecAgg: ready, done
    agg_calls,            \* SpecAgg: how often the function was called
    agg_stage2,           \* SpecAgg: the stage2_results argument
    agg_label_to_model,   \* SpecAgg: the label_to_model argument
    agg_out,              \* SpecAgg: the returned list
    parse_pc,             \* SpecParse: ready, done, raised
    parse_text,           \* SpecParse: the ranking_text argument
    parse_out,            \* SpecParse: the returned list
    ctx_pc,               \* SpecCtx: ready, summarizing, done
    ctx_history,          \* SpecCtx: the conversation_history argument
    ctx_limit,            \* SpecCtx: the limit argument, <<>> for None, <<n>> for n
    ctx_summarize_older,  \* SpecCtx: the summarize_older argument
    ctx_summarized,       \* SpecCtx: the arguments of the calls of summarize_conversation_segment
    ctx_queries,          \* SpecCtx: the model queries of the Summarizer, in order
    ctx_responses,        \* SpecCtx: what those queries came back with, in order
    ctx_summary,          \* SpecCtx: what the Summarizer returned, <<>> before it returns
    ctx_out,              \* SpecCtx: the returned list
    files,                \* SpecStore, SpecHist: conversation id -> the JSON file's content, <<>> when there is no file
    store_clock,          \* SpecStore: the clock that datetime.utcnow() reads
    store_log,            \* SpecStore: per id, what was asked of the storage since the id was created
    store_last            \* SpecStore, SpecHist: the last call and how it ended

runVars == <<variant, conversation_history, pc, responses1, responses2,
             chairman, queries, stage1_results, label_to_model, stage2_results,
             aggregate_rankings, result>>
aggVars == <<agg_pc, agg_calls, agg_stage2, agg_label_to_model, agg_out>>
parseVars == <<parse_pc, parse_text, parse_out>>
ctxVars == <<ctx_pc, ctx_history, ctx_limit, ctx_summarize_older, ctx_summarized,
             ctx_queries, ctx_responses, ctx_summary, ctx_out>>
storeVars == <<files, store_clock, store_log, store_last>>
pureVars == <<aggVars, parseVars, ctxVars, storeVars>>
vars == <<runVars, pureVars>>

----------------------------------------------------------------------------
(* backend/config.py *)

COUNCIL_MODELS == <<"anthropic/claude-sonnet-4.5", "gpt-5.2-chat-latest", "gemini-3-pro-preview">>
CHAIRMAN_MODEL == "gemini-3-pro-preview"
CONVERSATION_HISTORY_LIMIT == 10
SUMMARIZATION_MODEL == "gemini-2.5-flash"
SUMMARIZATION_FALLBACK_MODELS == <<"openai/gpt-4o-mini", "anthropic/claude-haiku">>

NumModels == Len(COUNCIL_MODELS)
CouncilSet == {COUNCIL_MODELS[i] : i \in 1..NumModels}

----------------------------------------------------------------------------
(* Sequences *)

Range(s) == {s[i] : i \in 1..Len(s)}

RECURSIVE SumSeq(_)
SumSeq(s) == IF s = <<>> THEN 0 ELSE Head(s) + SumSeq(Tail(s))

RECURSIVE FlattenSeq(_)
FlattenSeq(ss) == IF ss = <<>> THEN <<>> ELSE Head(ss) \o FlattenSeq(Tail(ss))

\* The distinct elements of s, each at its first occurrence: the key order of
\* a dict filled in the order of s.
RECURSIVE FirstOccurrences(_)
FirstOccurrences(s) ==
    IF s = <<>> THEN <<>>
    ELSE LET init == FirstOccurrences(SubSeq(s, 1, Len(s) - 1))
             last == s[Len(s)]
         IN  IF last \in Range(init) THEN init ELSE Append(init, last)

----------------------------------------------------------------------------
(* Texts *)

MARKER == "FINAL RANKING:"
Letters == <<"A", "B", "C", "D", "E", "F", "G", "H", "I", "J", "K", "L", "M",
             "N", "O", "P", "Q", "R", "S", "T", "U", "V", "W", "X", "Y", "Z">>

\* chr(65 + i)
Chr65(i) == Letters[i + 1]

ResponseLabel(letter) == "Response " \o letter

\* Response [A-Z]
IsResponse(t) == t \in {ResponseLabel(Letters[i]) : i \in 1..Len(Letters)}
\* \d
IsDigit(t) == t \in {"0", "1", "2", "3", "4", "5", "6", "7", "8", "9"}
\* \s
IsSpace(t) == t \in {" ", "\n", "\t"}

----------------------------------------------------------------------------
(* parse_ranking_from_text *)

\* ranking_text.split("FINAL RANKING:")
RECURSIVE SplitMarker(_)
SplitMarker(text) ==
    IF MARKER \notin Range(text) THEN <<text>>
    ELSE LET i == CHOOSE k \in 1..Len(text) :
                      text[k] = MARKER /\ \A j \in 1..(k - 1) : text[j] # MARKER
         IN  <<SubSeq(text, 1, i - 1)>> \o SplitMarker(SubSeq(text, i + 1, Len(text)))

RECURSIVE SkipDigits(_, _)
SkipDigits(s, i) == IF i <= Len(s) /\ IsDigit(s[i]) THEN SkipDigits(s, i + 1) ELSE i

\* A pattern without \s*: the label has to follow the period at once.
SkipNoSpaces(s, i) == i

RECURSIVE SkipSpaces(_, _)
SkipSpaces(s, i) == IF i <= Len(s) /\ IsSpace(s[i]) THEN SkipSpaces(s, i + 1) ELSE i

\* A pattern that lost its label: \d+\.\s*
NumberedMatchEndNoLabel(s, i) ==
    IF i > Len(s) \/ ~IsDigit(s[i]) THEN 0
    ELSE LET k == SkipDigits(s, i)
         IN  IF k > Len(s) \/ s[k] # "." THEN 0
             ELSE SkipSpaces(s, k + 1) - 1

\* \d+\.\s*Response [A-Z] matched at i: the index of the match's last token,
\* 0 when there is no match at i.
NumberedMatchEnd(s, i) ==
    IF i > Len(s) \/ ~IsDigit(s[i]) THEN 0
    ELSE LET k == SkipDigits(s, i)
         IN  IF k > Len(s) \/ s[k] # "." THEN 0
             ELSE LET j == SkipSpaces(s, k + 1)
                  IN  IF j > Len(s) \/ ~IsResponse(s[j]) THEN 0 ELSE j

\* re.findall(r'\d+\.\s*Response [A-Z]', s): the matches, left to right,
\* none overlapping another.
RECURSIVE FindNumberedFrom(_, _)
FindNumberedFrom(s, i) ==
    IF i > Len(s) THEN <<>>
    ELSE LET e == NumberedMatchEnd(s, i)
         IN  IF e = 0 THEN FindNumberedFrom(s, i + 1)
             ELSE <<SubSeq(s, i, e)>> \o FindNumberedFrom(s, e + 1)

FindAllNumbered(s) == FindNumberedFrom(s, 1)

\* re.findall(r'Response [A-Z]', s)
FindAllResponse(s) == SelectSeq(s, IsResponse)

\* re.search(r'Response [A-Z]', m): <<>> is None, <<t>> a match.
SearchResponse(m) ==
    LET all == FindAllResponse(m) IN IF all = <<>> THEN <<>> ELSE <<Head(all)>>

\* A parser that goes on to the whole text when the section holds no label.
ParseOutcomeFallThrough(ranking_text) ==
    IF MARKER \in Range(ranking_text)
    THEN LET ranking_section == SplitMarker(ranking_text)[2]
             numbered_matches == FindAllNumbered(ranking_section)
         IN  IF numbered_matches # <<>>
             THEN [raised |-> FALSE,
                   value |-> FlattenSeq([k \in 1..Len(numbered_matches) |->
                                            SearchResponse(numbered_matches[k])])]
             ELSE IF FindAllResponse(ranking_section) # <<>>
                  THEN [raised |-> FALSE, value |-> FindAllResponse(ranking_section)]
                  ELSE [raised |-> FALSE, value |-> FindAllResponse(ranking_text)]
    ELSE [raised |-> FALSE, value |-> FindAllResponse(ranking_text)]

\* The call's outcome: raised (.group() of None) or the returned list.
ParseOutcome(ranking_text) ==
    IF MARKER \in Range(ranking_text)
    THEN LET parts == SplitMarker(ranking_text)
         IN  IF Len(parts) >= 2
             THEN LET ranking_section == parts[2]
                      numbered_matches == FindAllNumbered(ranking_section)
                      found == [k \in 1..Len(numbered_matches) |->
                                    SearchResponse(numbered_matches[k])]
                  IN  IF numbered_matches # <<>>
                      THEN IF \E k \in 1..Len(found) : found[k] = <<>>
                           THEN [raised |-> TRUE, value |-> <<>>]
                           ELSE [raised |-> FALSE, value |-> FlattenSeq(found)]
                      ELSE [raised |-> FALSE, value |-> FindAllResponse(ranking_section)]
             ELSE [raised |-> FALSE, value |-> FindAllResponse(ranking_text)]
    ELSE [raised |-> FALSE, value |-> FindAllResponse(ranking_text)]

ParseRaises(ranking_text) == ParseOutcome(ranking_text).raised
parse_ranking_from_text(ranking_text) == ParseOutcome(ranking_text).value

----------------------------------------------------------------------------
(* calculate_aggregate_rankings *)

\* round(sum / n, 2) in hundredths.  A mean of fewer than 40 positions that
\* lies halfway between two hundredths is a multiple of 1/8, which a float
\* holds exactly, and round() takes it to the even neighbour.
Round2(sum, n) ==
    LET q == (100 * sum) \div n
        r == (100 * sum) % n
    IN  IF 2 * r < n THEN q
        ELSE IF 2 * r > n THEN q + 1
        ELSE IF q % 2 = 0 THEN q ELSE q + 1

\* enumerate() without start=1.
ContributionsZeroBased(s2, l2m) ==
    FlattenSeq([r \in 1..Len(s2) |->
        LET parsed_ranking == parse_ranking_from_text(s2[r].ranking)
            hits == SelectSeq([k \in 1..Len(parsed_ranking) |->
                                  [label |-> parsed_ranking[k], position |-> k - 1]],
                              LAMBDA h : h.label \in DOMAIN l2m)
        IN  [k \in 1..Len(hits) |->
                [model |-> l2m[hits[k].label], position |-> hits[k].position]]])

\* Without the test of line 247: an unknown label is entered under its own name.
ContributionsUnfiltered(s2, l2m) ==
    FlattenSeq([r \in 1..Len(s2) |->
        LET parsed_ranking == parse_ranking_from_text(s2[r].ranking)
        IN  [k \in 1..Len(parsed_ranking) |->
                [model |-> IF parsed_ranking[k] \in DOMAIN l2m
                           THEN l2m[parsed_ranking[k]] ELSE parsed_ranking[k],
                 position |-> k]]])

\* A ranker's repeated label counted at its first occurrence only.
ContributionsFirstOnly(s2, l2m) ==
    FlattenSeq([r \in 1..Len(s2) |->
        LET parsed_ranking == parse_ranking_from_text(s2[r].ranking)
            firsts == {k \in 1..Len(parsed_ranking) :
                          \A j \in 1..(k - 1) : parsed_ranking[j] # parsed_ranking[k]}
            hits == SelectSeq([k \in 1..Len(parsed_ranking) |->
                                  [label |-> parsed_ranking[k], position |-> k]],
                              LAMBDA h : h.label \in DOMAIN l2m /\ h.position \in firsts)
        IN  [k \in 1..Len(hits) |->
                [model |-> l2m[hits[k].label], position |-> hits[k].position]]])

\* Lines 240-249: every append to model_positions, in order.
Contributions(s2, l2m) ==
    FlattenSeq([r \in 1..Len(s2) |->
        LET parsed_ranking == parse_ranking_from_text(s2[r].ranking)
            hits == SelectSeq([k \in 1..Len(parsed_ranking) |->
                                  [label |-> parsed_ranking[k], position |-> k]],
                              LAMBDA h : h.label \in DOMAIN l2m)
        IN  [k \in 1..Len(hits) |->
                [model |-> l2m[hits[k].label], position |-> hits[k].position]]])

\* model_positions: its keys in insertion order, each with its list.
ModelPositions(s2, l2m) ==
    LET contribs == Contributions(s2, l2m)
        keys == FirstOccurrences([k \in 1..Len(contribs) |-> contribs[k].model])
    IN  [i \in 1..Len(keys) |->
            LET mine == SelectSeq(contribs, LAMBDA c : c.model = keys[i])
            IN  [model |-> keys[i],
                 positions |-> [k \in 1..Len(mine) |-> mine[k].position]]]

\* Lines 252-260.
AggregateEntries(model_positions) ==
    LET kept == SelectSeq(model_positions, LAMBDA mp : mp.positions # <<>>)
    IN  [i \in 1..Len(kept) |->
            [model |-> kept[i].model,
             average_rank |-> Round2(SumSeq(kept[i].positions), Len(kept[i].positions)),
             rankings_count |-> Len(kept[i].positions)]]

\* A sort that puts an entry before its equals.
InsertByRankUnstable(sorted, e) ==
    LET k == Cardinality({i \in 1..Len(sorted) : sorted[i].average_rank < e.average_rank})
    IN  SubSeq(sorted, 1, k) \o <<e>> \o SubSeq(sorted, k + 1, Len(sorted))

\* list.sort(key=average_rank): stable.
InsertByRank(sorted, e) ==
    LET k == Cardinality({i \in 1..Len(sorted) : sorted[i].average_rank <= e.average_rank})
    IN  SubSeq(sorted, 1, k) \o <<e>> \o SubSeq(sorted, k + 1, Len(sorted))

RECURSIVE SortByAverageRank(_)
SortByAverageRank(s) ==
    IF s = <<>> THEN <<>>
    ELSE InsertByRank(SortByAverageRank(SubSeq(s, 1, Len(s) - 1)), s[Len(s)])

calculate_aggregate_rankings(s2, l2m) ==
    SortByAverageRank(AggregateEntries(ModelPositions(s2, l2m)))

----------------------------------------------------------------------------
(* The model query capability (backend/openrouter.py) *)

\* A call's slot: not issued, in flight, returned None, or returned a
\* response dict (its usage and finish_reason travel like its id).
Idle == [status |-> "idle"]
Pending == [status |-> "pending"]
Null == [status |-> "null"]
Ok(c) == [status |-> "ok", content |-> c, id |-> "resp-id"]

Completed(slot) == slot.status \in {"null", "ok"}

\* query_models_parallel(models, messages), on entry: one query per model.
IssueAll(stage, models, messages) ==
    [i \in 1..Len(models) |-> [stage |-> stage, model |-> models[i], messages |-> messages]]

\* query_models_parallel returns once every call has returned.
AllReturned(responses) == \A m \in DOMAIN responses : Completed(responses[m])

\* responses.items(): one (model, response) pair per requested model, in the
\* order of the models argument.
Items(models, responses) ==
    [i \in 1..Len(models) |-> [model |-> models[i], response |-> responses[models[i]]]]

----------------------------------------------------------------------------
(* What the models may answer *)

UserQuery == "query"

Histories ==
    { <<>>,
      <<[role |-> "user", content |-> "earlier question"],
        [role |-> "assistant", content |-> "earlier answer"]>> }

Stage1Contents == {"answer 1", "answer 2"}

RA == ResponseLabel("A")
RB == ResponseLabel("B")
RC == ResponseLabel("C")

RankTexts ==
    { \* an evaluation, then the ranking as asked for
      <<"x", MARKER, "\n", "1", ".", " ", RA, "\n", "2", ".", " ", RB, "\n", "3", ".", " ", RC>>,
      \* a ranking that leaves one response out
      <<MARKER, "1", ".", RC, "2", ".", " ", RA>>,
      \* nothing to parse
      <<"x", "x">>,
      \* no marker, labels mentioned in passing
      <<RB, "x", RA>>,
      \* a label before the marker, a list item that is no label, a bare label
      <<RA, MARKER, "1", ".", " ", "x", RB>> }

ChairmanContents == {"final answer"}

----------------------------------------------------------------------------
(* Stage 1 *)

\* The content of the one user message, by its parts (lines 18, 363-376).
Stage1Messages(user_query, history) ==
    [history |-> history, query |-> user_query]

\* A collector that forgot the None test.
Stage1CollectUnfiltered(items) ==
    [i \in 1..Len(items) |->
        [model |-> items[i].model,
         response |-> IF items[i].response.status = "ok"
                      THEN items[i].response.content ELSE "",
         response_id |-> "resp-id"]]

\* Lines 24-33, 382-391.
Stage1Collect(items) ==
    LET ok == SelectSeq(items, LAMBDA it : it.response.status = "ok")
    IN  [i \in 1..Len(ok) |->
            [model |-> ok[i].model,
             response |-> ok[i].response.content,
             response_id |-> ok[i].response.id]]

----------------------------------------------------------------------------
(* Stage 2 *)

\* labels = [chr(65 + i) for i in range(len(stage1_results))]
Labels(s1) == [i \in 1..Len(s1) |-> Chr65(i - 1)]

\* Every response under the first label.
LabelToModelOneLabel(s1) ==
    [l \in {ResponseLabel(Chr65(0))} |-> s1[Len(s1)].model]

\* {f"Response {label}": result["model"] for label, result in zip(labels, stage1_results)}
LabelToModel(s1) ==
    [l \in {ResponseLabel(Labels(s1)[i]) : i \in 1..Len(s1)} |->
        s1[CHOOSE i \in 1..Len(s1) : ResponseLabel(Labels(s1)[i]) = l].model]

\* The ranking prompt, by its parts (lines 61-98, 416-461).
RankingMessages(user_query, s1, history) ==
    [history |-> history,
     query |-> user_query,
     responses |-> [i \in 1..Len(s1) |->
                       [label |-> ResponseLabel(Labels(s1)[i]), response |-> s1[i].response]]]

\* A collector that skips a ranking it could not parse.
Stage2CollectDropUnparsed(items) ==
    LET ok == SelectSeq(items, LAMBDA it :
                  /\ it.response.status = "ok"
                  /\ parse_ranking_from_text(it.response.content) # <<>>)
    IN  [i \in 1..Len(ok) |->
            [model |-> ok[i].model,
             ranking |-> ok[i].response.content,
             parsed_ranking |-> parse_ranking_from_text(ok[i].response.content),
             response_id |-> ok[i].response.id]]

\* Lines 104-116, 467-478.
Stage2Collect(items) ==
    LET ok == SelectSeq(items, LAMBDA it : it.response.status = "ok")
    IN  [i \in 1..Len(ok) |->
            [model |-> ok[i].model,
             ranking |-> ok[i].response.content,
             parsed_ranking |-> parse_ranking_from_text(ok[i].response.content),
             response_id |-> ok[i].response.id]]

----------------------------------------------------------------------------
(* Stage 3 *)

\* The chairman prompt, by its parts (lines 138-165, 502-557).
ChairmanMessages(user_query, s1, s2, history) ==
    [history |-> history,
     query |-> user_query,
     stage1 |-> [i \in 1..Len(s1) |-> [model |-> s1[i].model, response |-> s1[i].response]],
     stage2 |-> [i \in 1..Len(s2) |-> [model |-> s2[i].model, ranking |-> s2[i].ranking]]]

SynthesisError == "Error: Unable to generate final synthesis."

AllFailed == [model |-> "error", response |-> "All models failed to respond. Please try again."]

\* A failed chairman reported like a failed council.
Stage3ResultAsAllFailed(response) ==
    IF response.status = "ok"
    THEN [model |-> CHAIRMAN_MODEL, response |-> response.content, response_id |-> response.id]
    ELSE AllFailed

\* Lines 170-184, 563-575.
Stage3Result(response) ==
    IF response.status = "ok"
    THEN [model |-> CHAIRMAN_MODEL, response |-> response.content, response_id |-> response.id]
    ELSE [model |-> CHAIRMAN_MODEL, response |-> SynthesisError]

----------------------------------------------------------------------------
(* run_full_council, run_full_council_with_history *)

\* The history the stages see: run_full_council passes none.
History == IF variant = "history" THEN conversation_history ELSE <<>>

NoResponses == [m \in CouncilSet |-> Idle]
NoLabels == [l \in {} |-> ""]

\* Ranking only by the models that answered.
Stage2ModelsResponders(s1) == [i \in 1..Len(s1) |-> s1[i].model]

\* Lines 101, 464: the ranking prompt goes to COUNCIL_MODELS.
Stage2Models(s1) == COUNCIL_MODELS

RunInit ==
    /\ variant \in {"plain", "history"}
    /\ conversation_history \in Histories
    /\ variant = "plain" => conversation_history = <<>>
    /\ pc = "start"
    /\ responses1 = NoResponses
    /\ responses2 = NoResponses
    /\ chairman = Idle
    /\ queries = <<>>
    /\ stage1_results = <<>>
    /\ label_to_model = NoLabels
    /\ stage2_results = <<>>
    /\ aggregate_rankings = <<>>
    /\ result = <<>>

RunIdle ==
    /\ variant = "plain"
    /\ conversation_history = <<>>
    /\ pc = "idle"
    /\ responses1 = NoResponses
    /\ responses2 = NoResponses
    /\ chairman = Idle
    /\ queries = <<>>
    /\ stage1_results = <<>>
    /\ label_to_model = NoLabels
    /\ stage2_results = <<>>
    /\ aggregate_rankings = <<>>
    /\ result = <<>>

\* Lines 317, 593 up to the fan-out's await.
Stage1Dispatch ==
    /\ pc = "start"
    /\ queries' = queries \o IssueAll(1, COUNCIL_MODELS, Stage1Messages(UserQuery, History))
    /\ responses1' = [m \in CouncilSet |-> Pending]
    /\ pc' = "stage1"
    /\ UNCHANGED <<variant, conversation_history, responses2, chairman,
                   stage1_results, label_to_model, stage2_results, aggregate_rankings,
                   result, pureVars>>

\* One Stage 1 call returns: a response or None.
Stage1Complete(m, r) ==
    /\ pc = "stage1"
    /\ responses1[m].status = "pending"
    /\ responses1' = [responses1 EXCEPT ![m] = r]
    /\ UNCHANGED <<variant, conversation_history, pc, responses2, chairman, queries,
                   stage1_results, label_to_model, stage2_results, aggregate_rankings,
                   result, pureVars>>

\* Stage 2 started as soon as one Stage 1 call is back.
AfterStage1NoWait ==
    /\ pc = "stage1"
    /\ \E m \in CouncilSet : Completed(responses1[m])
    /\ LET s1 == Stage1Collect(SelectSeq(Items(COUNCIL_MODELS, responses1),
                                         LAMBDA it : Completed(it.response)))
       IN  /\ stage1_results' = s1
           /\ label_to_model' = LabelToModel(s1)
           /\ queries' = queries \o
                  IssueAll(2, Stage2Models(s1), RankingMessages(UserQuery, s1, History))
           /\ responses2' = [m \in CouncilSet |-> Pending]
           /\ pc' = "stage2"
           /\ UNCHANGED result
    /\ UNCHANGED <<variant, conversation_history, responses1, chairman,
                   stage2_results, aggregate_rankings, pureVars>>

\* The run goes on to Stage 2 with no response at all.
AfterStage1NoShortCircuit ==
    /\ pc = "stage1"
    /\ AllReturned(responses1)
    /\ LET s1 == Stage1Collect(Items(COUNCIL_MODELS, responses1))
       IN  /\ stage1_results' = s1
           /\ label_to_model' = LabelToModel(s1)
           /\ queries' = queries \o
                  IssueAll(2, Stage2Models(s1), RankingMessages(UserQuery, s1, History))
           /\ responses2' = [m \in CouncilSet |-> Pending]
           /\ pc' = "stage2"
           /\ UNCHANGED result
    /\ UNCHANGED <<variant, conversation_history, responses1, chairman,
                   stage2_results, aggregate_rankings, pureVars>>

\* Lines 317-327, 593-605: Stage 1's fan-out has returned; the results are
\* collected, and the run returns the error tuple or sends the ranking prompt.
AfterStage1 ==
    /\ pc = "stage1"
    /\ AllReturned(responses1)
    /\ LET s1 == Stage1Collect(Items(COUNCIL_MODELS, responses1))
       IN  /\ stage1_results' = s1
           /\ IF s1 = <<>>
              THEN /\ result' = <<<<>>, <<>>, AllFailed, <<>>>>
                   /\ pc' = "done"
                   /\ UNCHANGED <<label_to_model, queries, responses2>>
              ELSE /\ label_to_model' = LabelToModel(s1)
                   /\ queries' = queries \o
                          IssueAll(2, Stage2Models(s1), RankingMessages(UserQuery, s1, History))
                   /\ responses2' = [m \in CouncilSet |->
                                        IF m \in Range(Stage2Models(s1)) THEN Pending ELSE Idle]
                   /\ pc' = "stage2"
                   /\ UNCHANGED result
    /\ UNCHANGED <<variant, conversation_history, responses1, chairman,
                   stage2_results, aggregate_rankings, pureVars>>

\* One Stage 2 call returns: a ranking text or None.
Stage2Complete(m, r) ==
    /\ pc = "stage2"
    /\ responses2[m].status = "pending"
    /\ responses2' = [responses2 EXCEPT ![m] = r]
    /\ UNCHANGED <<variant, conversation_history, pc, responses1, chairman,
                   queries, stage1_results, label_to_model, stage2_results,
                   aggregate_rankings, result, pureVars>>

\* What the Stage 2 fan-out returned: an entry per model it was given.
Stage2Items ==
    SelectSeq(Items(COUNCIL_MODELS, responses2), LAMBDA it : it.response.status # "idle")

\* Lines 108, 244, 470: a ranking text on which the parser raises.
Stage2Raises(items) ==
    \E i \in 1..Len(items) :
        /\ items[i].response.status = "ok"
        /\ ParseRaises(items[i].response.content)

\* A run that gives up when no ranking came back, as it does after Stage 1.
AfterStage2AbortOnNoRanking ==
    /\ pc = "stage2"
    /\ \A m \in CouncilSet : responses2[m].status # "pending"
    /\ LET s2 == Stage2Collect(Stage2Items)
       IN  /\ stage2_results' = s2
           /\ aggregate_rankings' = calculate_aggregate_rankings(s2, label_to_model)
           /\ IF s2 = <<>>
              THEN /\ result' = <<<<>>, <<>>, AllFailed, <<>>>>
                   /\ pc' = "done"
                   /\ UNCHANGED <<queries, chairman>>
              ELSE /\ queries' = Append(queries,
                          [stage |-> 3, model |-> CHAIRMAN_MODEL,
                           messages |-> ChairmanMessages(UserQuery, stage1_results, s2, History)])
                   /\ chairman' = Pending
                   /\ pc' = "stage3"
                   /\ UNCHANGED result
    /\ UNCHANGED <<variant, conversation_history, responses1, responses2,
                   stage1_results, label_to_model, pureVars>>

\* Lines 327-337, 603-613: Stage 2's fan-out has returned; the rankings are
\* parsed and aggregated and the chairman is queried.
AfterStage2 ==
    /\ pc = "stage2"
    /\ \A m \in CouncilSet : responses2[m].status # "pending"
    /\ LET items == Stage2Items
       IN  IF Stage2Raises(items)
           THEN /\ pc' = "raised"
                /\ UNCHANGED <<stage2_results, aggregate_rankings, queries, chairman>>
           ELSE LET s2 == Stage2Collect(items)
                IN  /\ stage2_results' = s2
                    /\ aggregate_rankings' = calculate_aggregate_rankings(s2, label_to_model)
                    /\ queries' = Append(queries,
                           [stage |-> 3, model |-> CHAIRMAN_MODEL,
                            messages |-> ChairmanMessages(UserQuery, stage1_results, s2, History)])
                    /\ chairman' = Pending
                    /\ pc' = "stage3"
    /\ UNCHANGED <<variant, conversation_history, responses1, responses2,
                   stage1_results, label_to_model, result, pureVars>>

\* The chairman call returns: a response or None.
Stage3Complete(r) ==
    /\ pc = "stage3"
    /\ chairman.status = "pending"
    /\ chairman' = r
    /\ UNCHANGED <<variant, conversation_history, pc, responses1, responses2,
                   queries, stage1_results, label_to_model, stage2_results,
                   aggregate_rankings, result, pureVars>>

\* A chairman that failed is asked again.
AfterStage3Retry ==
    /\ pc = "stage3"
    /\ Completed(chairman)
    /\ IF chairman.status = "null" /\ Len(queries) <= 2 * NumModels + 1
       THEN /\ queries' = Append(queries, queries[Len(queries)])
            /\ chairman' = Pending
            /\ UNCHANGED <<result, pc>>
       ELSE /\ result' = <<stage1_results, stage2_results, Stage3Result(chairman),
                           [label_to_model |-> label_to_model,
                            aggregate_rankings |-> aggregate_rankings]>>
            /\ pc' = "done"
            /\ UNCHANGED <<queries, chairman>>
    /\ UNCHANGED <<variant, conversation_history, responses1, responses2,
                   stage1_results, label_to_model, stage2_results,
                   aggregate_rankings, pureVars>>

\* Lines 333-345, 611-621: the chairman call has returned; the run returns.
AfterStage3 ==
    /\ pc = "stage3"
    /\ Completed(chairman)
    /\ result' = <<stage1_results, stage2_results, Stage3Result(chairman),
                   [label_to_model |-> label_to_model,
                    aggregate_rankings |-> aggregate_rankings]>>
    /\ pc' = "done"
    /\ UNCHANGED <<variant, conversation_history, responses1, responses2,
                   chairman, queries, stage1_results, label_to_model, stage2_results,
                   aggregate_rankings, pureVars>>

AggIdle ==
    /\ agg_pc = "idle"
    /\ agg_calls = 0
    /\ agg_stage2 = <<>>
    /\ agg_label_to_model = NoLabels
    /\ agg_out = <<>>

ParseIdle ==
    /\ parse_pc = "idle"
    /\ parse_text = <<>>
    /\ parse_out = <<>>

CtxIdle ==
    /\ ctx_pc = "idle"
    /\ ctx_history = <<>>
    /\ ctx_limit = <<>>
    /\ ctx_summarize_older = TRUE
    /\ ctx_summarized = <<>>
    /\ ctx_queries = <<>>
    /\ ctx_responses = <<>>
    /\ ctx_summary = <<>>
    /\ ctx_out = <<>>

\* The conversation ids that calls name.
ConvIds == {"c1", "c2"}
NoFile == <<>>
NoCall == [op |-> "none"]

StoreIdle ==
    /\ files = [id \in ConvIds |-> NoFile]
    /\ store_clock = 0
    /\ store_log = [id \in ConvIds |-> <<>>]
    /\ store_last = NoCall

Init == RunInit /\ AggIdle /\ ParseIdle /\ CtxIdle /\ StoreIdle

Next ==
    \/ Stage1Dispatch
    \/ \E m \in CouncilSet : \E r \in {Null} \cup {Ok(c) : c \in Stage1Contents} :
           Stage1Complete(m, r)
    \/ AfterStage1
    \/ \E m \in CouncilSet : \E r \in {Null} \cup {Ok(t) : t \in RankTexts} :
           Stage2Complete(m, r)
    \/ AfterStage2
    \/ \E r \in {Null} \cup {Ok(c) : c \in ChairmanContents} : Stage3Complete(r)
    \/ AfterStage3

Spec == Init /\ [][Next]_vars

----------------------------------------------------------------------------
(* calculate_aggregate_rankings on its own *)

MaxRankers == 2
MaxCalls == 2

RD == ResponseLabel("D")
DigitTokens == <<"1", "2", "3", "4", "5", "6", "7", "8", "9">>

\* A ranking written as asked for: the marker, then a numbered list.
RECURSIVE RenderItems(_, _)
RenderItems(labels, i) ==
    IF i > Len(labels) THEN <<>>
    ELSE <<DigitTokens[i], ".", " ", labels[i], "\n">> \o RenderItems(labels, i + 1)

Render(labels) == <<"x", MARKER, "\n">> \o RenderItems(labels, 1)

AggRankings ==
    { <<>>, <<RA>>, <<RA, RB>>, <<RB, RA>>, <<RA, RA>>, <<RC, RA, RB>>, <<RA, RC>>,
      <<RD, RA>>, <<RB, RC, RA>> }

AggTexts == {Render(r) : r \in AggRankings} \cup {<<RB, "x", RA>>, <<"x", "x">>}

AggLabelMaps ==
    { (RA :> "m1") @@ (RB :> "m2") @@ (RC :> "m3"),
      (RA :> "m1") @@ (RB :> "m2"),
      (RA :> "m1") }

AggInit ==
    /\ agg_pc = "ready"
    /\ agg_calls = 0
    /\ agg_stage2 \in UNION {[1..n -> {[model |-> "ranker", ranking |-> t] : t \in AggTexts}] :
                                n \in 0..MaxRankers}
    /\ agg_label_to_model \in AggLabelMaps
    /\ agg_out = <<>>

\* A call that uses up its argument: each ranking is taken off the list.
AggCallConsuming ==
    /\ agg_pc \in {"ready", "done"}
    /\ agg_calls < MaxCalls
    /\ agg_out' = calculate_aggregate_rankings(agg_stage2, agg_label_to_model)
    /\ agg_stage2' = <<>>
    /\ agg_pc' = "done"
    /\ agg_calls' = agg_calls + 1
    /\ UNCHANGED <<agg_label_to_model, runVars, parseVars, ctxVars, storeVars>>

\* A call, the first or a later one on the same arguments: everything the
\* function writes (model_positions, aggregate) is local to the call, and the
\* arguments are left as they are.
AggCall ==
    /\ agg_pc \in {"ready", "done"}
    /\ agg_calls < MaxCalls
    /\ agg_out' = calculate_aggregate_rankings(agg_stage2, agg_label_to_model)
    /\ agg_pc' = "done"
    /\ agg_calls' = agg_calls + 1
    /\ UNCHANGED <<agg_stage2, agg_label_to_model, runVars, parseVars, ctxVars, storeVars>>

InitAgg == RunIdle /\ AggInit /\ ParseIdle /\ CtxIdle /\ StoreIdle
NextAgg == AggCall
SpecAgg == InitAgg /\ [][NextAgg]_vars

----------------------------------------------------------------------------
(* parse_ranking_from_text on its own *)

MaxPieces == 4

\* What a ranking text is put together from: the marker, bare labels, a
\* numbered item, a number with its period, whitespace, other text.
Pieces ==
    { <<MARKER>>, <<RA>>, <<RB>>, <<"1", ".", " ", RC>>, <<"2", ".">>, <<"\n">>, <<"x">> }

RECURSIVE TextsOf(_)
TextsOf(n) ==
    IF n = 0 THEN {<<>>}
    ELSE LET shorter == TextsOf(n - 1)
         IN  shorter \cup {t \o p : t \in shorter, p \in Pieces}

\* Whole answers: the ranking as asked for, labels in passing without a
\* marker, no label at all, and an evaluation that names the marker before
\* the ranking itself.
AnswerTexts ==
    { <<MARKER, "\n", "1", ".", " ", RC, "\n", "2", ".", " ", RA>>,
      <<RB, "x", RA>>,
      <<"x", "x">>,
      <<RA, "x", MARKER, "x", "\n", MARKER, "\n", "1", ".", " ", RB, "\n", "2", ".", " ", RA>> }

ParseTexts == TextsOf(MaxPieces) \cup AnswerTexts

ParseInit ==
    /\ parse_pc = "ready"
    /\ parse_text \in ParseTexts
    /\ parse_out = <<>>

ParseCall ==
    /\ parse_pc = "ready"
    /\ parse_pc' = IF ParseRaises(parse_text) THEN "raised" ELSE "done"
    /\ parse_out' = parse_ranking_from_text(parse_text)
    /\ UNCHANGED <<parse_text, runVars, aggVars, ctxVars, storeVars>>

InitParse == RunIdle /\ AggIdle /\ ParseInit /\ CtxIdle /\ StoreIdle
NextParse == ParseCall
SpecParse == InitParse /\ [][NextParse]_vars

----------------------------------------------------------------------------
(* build_conversation_context and summarize_conversation_segment *)

\* s[start:] as Python slices a list.
SliceFrom(s, start) ==
    LET from == IF start < 0
                THEN (IF Len(s) + start < 0 THEN 0 ELSE Len(s) + start)
                ELSE (IF start > Len(s) THEN Len(s) ELSE start)
    IN  SubSeq(s, from + 1, Len(s))

\* s[:stop] as Python slices a list or a string.
SliceTo(s, stop) ==
    LET to == IF stop < 0
              THEN (IF Len(s) + stop < 0 THEN 0 ELSE Len(s) + stop)
              ELSE (IF stop > Len(s) THEN Len(s) ELSE stop)
    IN  SubSeq(s, 1, to)

\* str.strip()
RECURSIVE LStrip(_)
LStrip(s) ==
    IF Len(s) > 0 /\ IsSpace(SubSeq(s, 1, 1)) THEN LStrip(SubSeq(s, 2, Len(s))) ELSE s
RECURSIVE RStrip(_)
RStrip(s) ==
    IF Len(s) > 0 /\ IsSpace(SubSeq(s, Len(s), Len(s)))
    THEN RStrip(SubSeq(s, 1, Len(s) - 1)) ELSE s
Strip(s) == LStrip(RStrip(s))

\* A limit of None that is not replaced by the configured one.
EffectiveLimitNoDefault(limit) == IF limit = <<>> THEN 0 ELSE limit[1]

\* if limit is None: limit = CONVERSATION_HISTORY_LIMIT
EffectiveLimit(limit) == IF limit = <<>> THEN CONVERSATION_HISTORY_LIMIT ELSE limit[1]

\* len(conversation_history) <= limit * 2
FitsLimit(history, limit) == Len(history) <= limit * 2

\* A split that counts messages where pairs are meant.
SplitPointInMessages(history, limit) == Len(history) - limit

\* split_point = len(conversation_history) - (limit * 2)
SplitPoint(history, limit) == Len(history) - (limit * 2)

\* conversation_history[-limit * 2:]
Truncated(history, limit) == SliceFrom(history, 0 - limit * 2)

FallbackExtra == 5
\* A fallback no wider than the window asked for.
FallbackWindowNarrow(history, limit) == SliceFrom(history, 0 - limit * 2)

\* conversation_history[-(limit + 5) * 2:]
FallbackWindow(history, limit) == SliceFrom(history, 0 - (limit + FallbackExtra) * 2)

\* msg["role"], msg['content']: a KeyError when the message lacks the key.
WellFormed(msg) == {"role", "content"} \subseteq DOMAIN msg

max_chars == 8000

SegmentLine(msg) ==
    (IF msg.role = "user" THEN "User" ELSE "Assistant") \o ": " \o msg.content \o "\n\n"

\* A loop that passes over a message that does not fit and goes on.
RECURSIVE ConversationTextSkipping(_, _, _)
ConversationTextSkipping(messages, i, conversation_text) ==
    IF i > Len(messages) THEN [raised |-> FALSE, text |-> conversation_text]
    ELSE IF ~WellFormed(messages[i]) THEN [raised |-> TRUE, text |-> conversation_text]
    ELSE LET text == SegmentLine(messages[i])
         IN  IF Len(conversation_text) + Len(text) > max_chars
             THEN ConversationTextSkipping(messages, i + 1, conversation_text)
             ELSE ConversationTextSkipping(messages, i + 1, conversation_text \o text)

\* The loop of lines 314-319 from message i on: [raised, text].
RECURSIVE ConversationTextFrom(_, _, _)
ConversationTextFrom(messages, i, conversation_text) ==
    IF i > Len(messages) THEN [raised |-> FALSE, text |-> conversation_text]
    ELSE IF ~WellFormed(messages[i]) THEN [raised |-> TRUE, text |-> conversation_text]
    ELSE LET text == SegmentLine(messages[i])
         IN  IF Len(conversation_text) + Len(text) > max_chars
             THEN [raised |-> FALSE, text |-> conversation_text]
             ELSE ConversationTextFrom(messages, i + 1, conversation_text \o text)

ConversationText(messages) == ConversationTextFrom(messages, 1, "")

SummarizationPrompt(conversation_text) ==
    "Please summarize the following conversation in a concise way that preserves the key points and maintains the conversation flow:\n\n"
    \o conversation_text
    \o "\n\nProvide a summary that would help someone continue this conversation naturally. Focus on the main topics discussed and any important conclusions reached.\n\nPlease keep the summary under 300 words."

\* messages_for_llm
MessagesForLlm(messages) ==
    <<[role |-> "user", content |-> SummarizationPrompt(ConversationText(messages).text)]>>

\* A chain that starts with the fallback models.
ModelsToTryFallbacksFirst == SUMMARIZATION_FALLBACK_MODELS \o <<SUMMARIZATION_MODEL>>

\* models_to_try
ModelsToTry == <<SUMMARIZATION_MODEL>> \o SUMMARIZATION_FALLBACK_MODELS

SimpleSummaryMessages == 5
SimpleSummaryChars == 50

RECURSIVE JoinComma(_)
JoinComma(parts) ==
    IF parts = <<>> THEN ""
    ELSE IF Len(parts) = 1 THEN parts[1]
    ELSE parts[1] \o ", " \o JoinComma(Tail(parts))

\* A summary made of every message, not of the first five.
SimpleSummaryAllMessages(messages) ==
    IF \E k \in 1..Len(messages) : "content" \notin DOMAIN messages[k]
    THEN "Previous conversation summary unavailable"
    ELSE "Conversation covers: " \o JoinComma(
             [k \in 1..Len(messages) |->
                 IF Len(messages[k].content) > SimpleSummaryChars
                 THEN SliceTo(messages[k].content, SimpleSummaryChars) \o "..."
                 ELSE messages[k].content])

\* Lines 360-368: the summary made without a model.
SimpleSummary(messages) ==
    LET first == SliceTo(messages, SimpleSummaryMessages)
    IN  IF \E k \in 1..Len(first) : "content" \notin DOMAIN first[k]
        THEN "Previous conversation summary unavailable"
        ELSE "Conversation covers: " \o JoinComma(
                 [k \in 1..Len(first) |->
                     IF Len(first[k].content) > SimpleSummaryChars
                     THEN SliceTo(first[k].content, SimpleSummaryChars) \o "..."
                     ELSE first[k].content])

\* A call of query_model that raised.
Raised == [status |-> "raised"]

\* if response and response.get("content")
HasContent(response) == response.status = "ok" /\ response.content # ""

\* The recent messages alone, the summary left out.
SummaryContextDropped(summary, recent_messages) == recent_messages

\* Lines 279-286: the summary message, then the recent messages.
SummaryContext(summary, recent_messages) ==
    <<[role |-> "system", content |-> "Previous conversation summary: " \o summary]>>
    \o recent_messages

\* The call up to its return or its first await.
CtxStart ==
    /\ ctx_pc = "ready"
    /\ LET limit == EffectiveLimit(ctx_limit)
           split_point == SplitPoint(ctx_history, limit)
           older_messages == SliceTo(ctx_history, split_point)
           recent_messages == SliceFrom(ctx_history, split_point)
       IN  IF FitsLimit(ctx_history, limit)
           THEN /\ ctx_out' = ctx_history
                /\ ctx_pc' = "done"
                /\ UNCHANGED <<ctx_summarized, ctx_queries>>
           ELSE IF ~ctx_summarize_older
           THEN /\ ctx_out' = Truncated(ctx_history, limit)
                /\ ctx_pc' = "done"
                /\ UNCHANGED <<ctx_summarized, ctx_queries>>
           ELSE IF split_point <= 0
           THEN /\ ctx_out' = ctx_history
                /\ ctx_pc' = "done"
                /\ UNCHANGED <<ctx_summarized, ctx_queries>>
           ELSE IF older_messages = <<>>
           THEN /\ ctx_out' = recent_messages
                /\ ctx_pc' = "done"
                /\ UNCHANGED <<ctx_summarized, ctx_queries>>
           ELSE /\ ctx_summarized' = Append(ctx_summarized, older_messages)
                /\ IF ConversationText(older_messages).raised
                   THEN \* except Exception: the wider window
                        /\ ctx_out' = FallbackWindow(ctx_history, limit)
                        /\ ctx_pc' = "done"
                        /\ UNCHANGED ctx_queries
                   ELSE /\ ctx_queries' = Append(ctx_queries,
                               [model |-> ModelsToTry[1],
                                messages |-> MessagesForLlm(older_messages)])
                        /\ ctx_pc' = "summarizing"
                        /\ UNCHANGED ctx_out
    /\ UNCHANGED <<ctx_history, ctx_limit, ctx_summarize_older, ctx_responses,
                   ctx_summary, runVars, aggVars, parseVars, storeVars>>

\* The awaited query_model call ends: the Summarizer returns, or goes on
\* to the next model of the chain.
CtxResponse(response) ==
    /\ ctx_pc = "summarizing"
    /\ ctx_responses' = Append(ctx_responses, response)
    /\ LET limit == EffectiveLimit(ctx_limit)
           split_point == SplitPoint(ctx_history, limit)
           older_messages == SliceTo(ctx_history, split_point)
           recent_messages == SliceFrom(ctx_history, split_point)
       IN  IF HasContent(response)
           THEN LET summary == Strip(response.content)
                IN  /\ ctx_summary' = <<summary>>
                    /\ ctx_out' = SummaryContext(summary, recent_messages)
                    /\ ctx_pc' = "done"
                    /\ UNCHANGED ctx_queries
           ELSE IF Len(ctx_queries) < Len(ModelsToTry)
           THEN /\ ctx_queries' = Append(ctx_queries,
                       [model |-> ModelsToTry[Len(ctx_queries) + 1],
                        messages |-> MessagesForLlm(older_messages)])
                /\ UNCHANGED <<ctx_summary, ctx_out, ctx_pc>>
           ELSE LET summary == SimpleSummary(older_messages)
                IN  /\ ctx_summary' = <<summary>>
                    /\ ctx_out' = SummaryContext(summary, recent_messages)
                    /\ ctx_pc' = "done"
                    /\ UNCHANGED ctx_queries
    /\ UNCHANGED <<ctx_history, ctx_limit, ctx_summarize_older, ctx_summarized,
                   runVars, aggVars, parseVars, storeVars>>

MaxMessages == 7
MaxLimit == 2

\* A conversation of n messages, user and assistant in turn.
Dialogue(n) ==
    [i \in 1..n |-> [role |-> IF i % 2 = 1 THEN "user" ELSE "assistant",
                     content |-> "message " \o ToString(i)]]

RECURSIVE Repeat(_, _)
Repeat(s, n) ==
    IF n = 0 THEN ""
    ELSE LET half == Repeat(s, n \div 2)
         IN  IF n % 2 = 0 THEN half \o half ELSE half \o half \o s

CtxHistories ==
    {Dialogue(n) : n \in 0..MaxMessages}
    \cup \* 8 pairs and 30 pairs, for the configured limit
    {Dialogue(16), Dialogue(60)}
    \cup \* a message without content among the older ones, and among the recent ones
    { <<[role |-> "user"]>> \o Dialogue(4), Dialogue(4) \o <<[role |-> "user"]>>,
      <<[role |-> "user"]>> \o Dialogue(14) }
    \cup \* messages that do not fit the Summarizer's text
    { <<[role |-> "user", content |-> Repeat("0123456789", 30)],
        [role |-> "assistant", content |-> Repeat("0123456789", 790)],
        [role |-> "user", content |-> "short"],
        [role |-> "assistant", content |-> "last"]>>,
      \* a first message over the budget, then one without content
      <<[role |-> "user", content |-> Repeat("0123456789", 800)],
        [role |-> "assistant"],
        [role |-> "user", content |-> "short"]>> }

SummaryResponses ==
    {Null, Raised} \cup {Ok(c) : c \in {"", " \n", "The summary.", " A summary. \n"}}

CtxInit ==
    /\ ctx_pc = "ready"
    /\ ctx_history \in CtxHistories
    /\ ctx_limit \in {<<>>} \cup {<<n>> : n \in 0..MaxLimit}
    /\ ctx_summarize_older \in BOOLEAN
    /\ ctx_summarized = <<>>
    /\ ctx_queries = <<>>
    /\ ctx_responses = <<>>
    /\ ctx_summary = <<>>
    /\ ctx_out = <<>>

InitCtx == RunIdle /\ AggIdle /\ ParseIdle /\ CtxInit /\ StoreIdle
NextCtx ==
    \/ CtxStart
    \/ \E response \in SummaryResponses : CtxResponse(response)
SpecCtx == InitCtx /\ [][NextCtx]_vars

----------------------------------------------------------------------------
(* The conversation files of backend/storage.py *)

\* json.dump followed by json.load gives back an equal value for the dicts,
\* lists and strings that a conversation is made of: a file's content is
\* kept as the value written.

MaxStored == 4
MaxClock == 2

\* The ids on which create_conversation is called; the other ids of ConvIds
\* are named by the other calls only.
CreatedIds == {"c1"}

\* get_conversation: None when there is no file.
get_conversation(conversation_id) == files[conversation_id]

\* The dict of lines 33-38.
NewConversation(conversation_id, now) ==
    [id |-> conversation_id, created_at |-> now, title |-> "New Conversation",
     messages |-> <<>>]

CallReturned(op, conversation_id, value) ==
    [op |-> op, id |-> conversation_id, outcome |-> "returned", value |-> value]
RaisedValueError(op, conversation_id) ==
    [op |-> op, id |-> conversation_id, outcome |-> "ValueError"]

create_conversation(conversation_id) ==
    /\ store_clock < MaxClock
    /\ store_clock' = store_clock + 1
    /\ LET conversation == NewConversation(conversation_id, store_clock')
       IN  /\ files' = [files EXCEPT ![conversation_id] = conversation]
           /\ store_log' = [store_log EXCEPT ![conversation_id] =
                                <<[created_at |-> store_clock', appended |-> <<>>]>>]
           /\ store_last' = CallReturned("create_conversation", conversation_id, conversation)
    /\ UNCHANGED <<runVars, aggVars, parseVars, ctxVars>>

\* An append that keeps the new message only.
AppendedOverwriting(conversation, message) ==
    [conversation EXCEPT !.messages = <<message>>]

\* conversation["messages"].append(...)
Appended(conversation, message) ==
    [conversation EXCEPT !.messages = Append(@, message)]

\* What has been appended to a conversation since it was created.
Logged(log, message) == <<[log[1] EXCEPT !.appended = Append(@, message)]>>

add_user_message(conversation_id, content) ==
    LET conversation == get_conversation(conversation_id)
        message == [role |-> "user", content |-> content]
    IN  /\ conversation # NoFile => Len(conversation.messages) < MaxStored
        /\ IF conversation = NoFile
           THEN /\ store_last' = RaisedValueError("add_user_message", conversation_id)
                /\ UNCHANGED <<files, store_log>>
           ELSE /\ files' = [files EXCEPT ![conversation_id] =
                                 Appended(conversation, message)]
                /\ store_log' = [store_log EXCEPT ![conversation_id] = Logged(@, message)]
                /\ store_last' = CallReturned("add_user_message", conversation_id, <<>>)
        /\ UNCHANGED <<store_clock, runVars, aggVars, parseVars, ctxVars>>

add_assistant_message(conversation_id, stage1, stage2, stage3) ==
    LET conversation == get_conversation(conversation_id)
        message == [role |-> "assistant", stage1 |-> stage1, stage2 |-> stage2,
                    stage3 |-> stage3]
    IN  /\ conversation # NoFile => Len(conversation.messages) < MaxStored
        /\ IF conversation = NoFile
           THEN /\ store_last' = RaisedValueError("add_assistant_message", conversation_id)
                /\ UNCHANGED <<files, store_log>>
           ELSE /\ files' = [files EXCEPT ![conversation_id] =
                                 Appended(conversation, message)]
                /\ store_log' = [store_log EXCEPT ![conversation_id] = Logged(@, message)]
                /\ store_last' = CallReturned("add_assistant_message", conversation_id, <<>>)
        /\ UNCHANGED <<store_clock, runVars, aggVars, parseVars, ctxVars>>

update_conversation_title(conversation_id, title) ==
    LET conversation == get_conversation(conversation_id)
    IN  /\ IF conversation = NoFile
           THEN /\ store_last' = RaisedValueError("update_conversation_title", conversation_id)
                /\ UNCHANGED files
           ELSE /\ files' = [files EXCEPT ![conversation_id] =
                                 [conversation EXCEPT !.title = title]]
                /\ store_last' = CallReturned("update_conversation_title", conversation_id, <<>>)
        /\ UNCHANGED <<store_clock, store_log, runVars, aggVars, parseVars, ctxVars>>

delete_conversation(conversation_id) ==
    /\ IF files[conversation_id] = NoFile
       THEN /\ store_last' = RaisedValueError("delete_conversation", conversation_id)
            /\ UNCHANGED <<files, store_log>>
       ELSE /\ files' = [files EXCEPT ![conversation_id] = NoFile]
            /\ store_log' = [store_log EXCEPT ![conversation_id] = <<>>]
            /\ store_last' = CallReturned("delete_conversation", conversation_id, TRUE)
    /\ UNCHANGED <<store_clock, runVars, aggVars, parseVars, ctxVars>>

\* if limit and ...: None and 0 are no limit.
Truthy(limit) == limit # <<>> /\ limit[1] # 0

\* The assistant message has a stage3 with a response.
HasStage3Response(assistant_msg) ==
    /\ "stage3" \in DOMAIN assistant_msg
    /\ "response" \in DOMAIN assistant_msg.stage3

\* A scan that starts at the most recent exchanges.
RECURSIVE ExchangesFromEnd(_, _, _, _, _)
ExchangesFromEnd(messages, i, exchange_count, limit, history_messages) ==
    IF i < 0 THEN history_messages
    ELSE LET message == messages[i + 1]
         IN  IF message.role = "user"
             THEN LET paired == /\ i + 1 < Len(messages)
                                /\ messages[i + 2].role = "assistant"
                                /\ HasStage3Response(messages[i + 2])
                      entry == <<[role |-> "user", content |-> message.content]>> \o
                               (IF paired
                                THEN <<[role |-> "assistant",
                                        content |-> messages[i + 2].stage3.response]>>
                                ELSE <<>>)
                  IN  IF Truthy(limit) /\ exchange_count + 1 >= limit[1]
                      THEN entry \o history_messages
                      ELSE ExchangesFromEnd(messages, i - 1, exchange_count + 1, limit,
                                            entry \o history_messages)
             ELSE ExchangesFromEnd(messages, i - 1, exchange_count, limit, history_messages)

\* The loop of lines 200-226 from index i (counted from 0) on.
RECURSIVE ExchangesFrom(_, _, _, _, _)
ExchangesFrom(messages, i, exchange_count, limit, history_messages) ==
    IF ~(i < Len(messages)) THEN history_messages
    ELSE LET message == messages[i + 1]
         IN  IF message.role = "user"
             THEN LET paired == /\ i + 1 < Len(messages)
                                /\ messages[i + 2].role = "assistant"
                                /\ HasStage3Response(messages[i + 2])
                      with_user == Append(history_messages,
                                          [role |-> "user", content |-> message.content])
                      with_reply == IF paired
                                    THEN Append(with_user,
                                                [role |-> "assistant",
                                                 content |-> messages[i + 2].stage3.response])
                                    ELSE with_user
                      next == IF paired THEN i + 1 ELSE i
                  IN  IF Truthy(limit) /\ exchange_count + 1 >= limit[1]
                      THEN with_reply
                      ELSE ExchangesFrom(messages, next + 1, exchange_count + 1, limit,
                                         with_reply)
             ELSE ExchangesFrom(messages, i + 1, exchange_count, limit, history_messages)

\* A history that is the stored messages themselves.
HistoryOfRaw(conversation, limit) ==
    IF conversation = NoFile THEN <<>> ELSE conversation.messages

\* A history of the most recent exchanges.
HistoryOfMostRecent(conversation, limit) ==
    IF conversation = NoFile THEN <<>>
    ELSE ExchangesFromEnd(conversation.messages, Len(conversation.messages) - 1, 0,
                          limit, <<>>)

\* Lines 189-228.
HistoryOf(conversation, limit) ==
    IF conversation = NoFile THEN <<>>
    ELSE ExchangesFrom(conversation.messages, 0, 0, limit, <<>>)

get_conversation_history(conversation_id, limit) ==
    /\ store_last' = [op |-> "get_conversation_history", id |-> conversation_id,
                      limit |-> limit, outcome |-> "returned",
                      value |-> HistoryOf(get_conversation(conversation_id), limit)]
    /\ UNCHANGED <<files, store_clock, store_log, runVars, aggVars, parseVars, ctxVars>>

\* What the calls are given.
UserContents == {"q1", "q2"}
Stage1Values == {<<[model |-> "m1", response |-> "answer 1"]>>}
Stage2Values == {<<[model |-> "m1", ranking |-> "ranking 1", parsed_ranking |-> <<>>]>>}
Stage3Values == {[model |-> CHAIRMAN_MODEL, response |-> "final answer"],
                 [model |-> CHAIRMAN_MODEL]}
Titles == {"A title"}
HistoryLimits == {<<>>} \cup {<<n>> : n \in 0..2}

StoreInit ==
    /\ files = [id \in ConvIds |-> NoFile]
    /\ store_clock = 0
    /\ store_log = [id \in ConvIds |-> <<>>]
    /\ store_last = NoCall

InitStore == RunIdle /\ AggIdle /\ ParseIdle /\ CtxIdle /\ StoreInit
NextStore ==
    \/ \E id \in CreatedIds : create_conversation(id)
    \/ \E id \in ConvIds : \E content \in UserContents : add_user_message(id, content)
    \/ \E id \in ConvIds : \E s1 \in Stage1Values : \E s2 \in Stage2Values :
           \E s3 \in Stage3Values : add_assistant_message(id, s1, s2, s3)
    \/ \E id \in ConvIds : \E title \in Titles : update_conversation_title(id, title)
    \/ \E id \in ConvIds : delete_conversation(id)
    \/ \E id \in ConvIds : \E limit \in HistoryLimits : get_conversation_history(id, limit)
SpecStore == InitStore /\ [][NextStore]_vars

\* Stored conversations for get_conversation_history on its own.
StoredMessages ==
    {[role |-> "user", content |-> c] : c \in UserContents}
    \cup {[role |-> "assistant", stage1 |-> s1, stage2 |-> s2, stage3 |-> s3] :
              s1 \in Stage1Values, s2 \in Stage2Values, s3 \in Stage3Values}

HistInit ==
    /\ \E ms \in UNION {[1..n -> StoredMessages] : n \in 0..MaxStored} :
           /\ files = [id \in ConvIds |->
                          IF id \in CreatedIds
                          THEN [NewConversation(id, 1) EXCEPT !.messages = ms]
                          ELSE NoFile]
           /\ store_log = [id \in ConvIds |->
                              IF id \in CreatedIds
                              THEN <<[created_at |-> 1, appended |-> ms]>> ELSE <<>>]
    /\ store_clock = 1
    /\ store_last = NoCall

InitHist == RunIdle /\ AggIdle /\ ParseIdle /\ CtxIdle /\ HistInit
NextHist == \E id \in ConvIds : \E limit \in HistoryLimits : get_conversation_history(id, limit)
SpecHist == InitHist /\ [][NextHist]_vars

----------------------------------------------------------------------------
(* Properties of a run *)

QueriesAt(stage) == SelectSeq(queries, LAMBDA q : q.stage = stage)
QueriesTo(stage, m) == SelectSeq(queries, LAMBDA q : q.stage = stage /\ q.model = m)

AllNull(responses) == \A m \in DOMAIN responses : responses[m].status = "null"
Stage1Failed == AllNull(responses1)

\* C1: when every Stage 1 call has returned None, the run returns exactly
\* ([], [], {model: "error", response: <message>}, {}), in both variants, and
\* no Stage 2 and no Stage 3 query is ever issued.
C1_TotalStage1Failure ==
    Stage1Failed =>
        /\ QueriesAt(2) = <<>>
        /\ QueriesAt(3) = <<>>
        /\ \A m \in CouncilSet : responses2[m].status = "idle"
        /\ chairman.status = "idle"
        /\ pc \in {"stage1", "done"}
        /\ pc = "stage1" => ENABLED AfterStage1
        /\ pc = "done" =>
              /\ Len(result) = 4
              /\ result[1] = <<>>
              /\ result[2] = <<>>
              /\ result[3] = [model |-> "error",
                              response |-> "All models failed to respond. Please try again."]
              /\ DOMAIN result[4] = {}

C1_Witness ==
    /\ Stage1Failed
    /\ pc = "done"
    /\ variant = "history"
    /\ conversation_history # <<>>
    /\ Len(queries) = NumModels

\* C2: when Stage 1 is non-empty and the chairman call returns None, the run
\* still returns; stage3 is {model: CHAIRMAN_MODEL, response: "Error: Unable
\* to generate final synthesis."}, and stage1, stage2, label_to_model and
\* aggregate_rankings are the same functions of the Stage 1 and Stage 2
\* answers as when the chairman answers.
C2_ChairmanFailure ==
    /\ (pc = "stage3" /\ Completed(chairman)) => ENABLED AfterStage3
    /\ (pc = "done" /\ Completed(chairman)) =>
          /\ Len(result) = 4
          /\ result[1] # <<>>
          /\ result[1] = Stage1Collect(Items(COUNCIL_MODELS, responses1))
          /\ result[2] = Stage2Collect(Items(COUNCIL_MODELS, responses2))
          /\ DOMAIN result[4] = {"label_to_model", "aggregate_rankings"}
          /\ result[4].label_to_model = LabelToModel(result[1])
          /\ result[4].aggregate_rankings =
                 calculate_aggregate_rankings(result[2], result[4].label_to_model)
          /\ chairman.status = "null" =>
                 result[3] = [model |-> CHAIRMAN_MODEL,
                              response |-> "Error: Unable to generate final synthesis."]
          /\ chairman.status = "ok" =>
                 /\ result[3].model = CHAIRMAN_MODEL
                 /\ result[3].response = chairman.content

C2_Witness ==
    /\ pc = "done"
    /\ chairman.status = "null"
    /\ Len(result[1]) = 2
    /\ Len(result[2]) = NumModels
    /\ result[4].aggregate_rankings # <<>>
    /\ result[3].response = SynthesisError

\* C3: a Stage 2 query is issued only when every Stage 1 call has returned,
\* the chairman query only when every Stage 1 and every Stage 2 call has
\* returned, and calls of two stages are never in flight together.
C3_StagesInSequence ==
    /\ QueriesAt(2) # <<>> => AllReturned(responses1)
    /\ QueriesAt(3) # <<>> => AllReturned(responses1) /\ AllReturned(responses2)
    /\ \A m \in CouncilSet : responses2[m].status # "idle" => AllReturned(responses1)
    /\ chairman.status # "idle" => AllReturned(responses1) /\ AllReturned(responses2)
    /\ \A i, j \in 1..Len(queries) : i < j => queries[i].stage <= queries[j].stage

C3_Witness ==
    /\ pc = "stage3"
    /\ chairman.status = "pending"
    /\ QueriesAt(2) # <<>>
    /\ QueriesAt(3) # <<>>
    /\ \E m \in CouncilSet : responses1[m].status = "null"
    /\ \E m \in CouncilSet : responses2[m].status = "null"

\* What a run has done so far: the queries issued, the calls returned, the
\* return itself.  No run goes past 4N + 3.
Progress ==
    Len(queries)
    + Cardinality({m \in CouncilSet : Completed(responses1[m])})
    + Cardinality({m \in CouncilSet : Completed(responses2[m])})
    + (IF Completed(chairman) THEN 1 ELSE 0)
    + (IF pc \in {"done", "raised"} THEN 1 ELSE 0)

\* Some step of the run can be taken.  (AfterStage2 is named by its guard:
\* whatever the fan-out returned, it collects or raises.)
CanStep ==
    \/ ENABLED Stage1Dispatch
    \/ ENABLED (\E m \in CouncilSet : Stage1Complete(m, Null))
    \/ ENABLED AfterStage1
    \/ ENABLED (\E m \in CouncilSet : Stage2Complete(m, Null))
    \/ (pc = "stage2" /\ \A m \in CouncilSet : responses2[m].status # "pending")
    \/ ENABLED Stage3Complete(Null)
    \/ ENABLED AfterStage3

Returned ==
    /\ pc = "done"
    /\ Len(result) = 4
    /\ "model" \in DOMAIN result[3]
    /\ "response" \in DOMAIN result[3]

\* C4: whatever each model query returns (a response of any content, or
\* None), run_full_council_with_history (and run_full_council) raises nothing
\* and returns a (stage1, stage2, stage3, metadata) tuple: no state is an
\* exception, a run that has not returned can always take a step, every step
\* adds to a bounded measure, and a finished run holds the tuple.
C4_NeverRaisesAlwaysReturns ==
    /\ [](/\ pc # "raised"
          /\ pc \in {"start", "stage1", "stage2", "stage3", "done"}
          /\ Progress <= 4 * NumModels + 3
          /\ pc # "done" => CanStep
          /\ pc = "done" => Returned)
    /\ [][Progress' > Progress]_vars

C4_Witness ==
    /\ Returned
    /\ variant = "history"
    /\ result[1] # <<>>
    /\ result[2] = <<>>
    /\ AllNull(responses2)
    /\ result[4].aggregate_rankings = <<>>
    /\ result[3].response = SynthesisError

\* Stage 2 has been entered: the label map has been built.
Labelled == pc \in {"stage2", "stage3", "done"} /\ stage1_results # <<>>

ModelIndex(m) == CHOOSE i \in 1..NumModels : COUNCIL_MODELS[i] = m

\* C5: for a non-empty Stage 1 result of n entries the label map's keys are
\* exactly "Response A" .. "Response <n-th letter>", the i-th label maps to the
\* model of the i-th entry, and the map is one-to-one onto the models that
\* answered.
C5_LabelBijection ==
    Labelled =>
        LET n == Len(stage1_results)
        IN  /\ n \in 1..Len(Letters)
            /\ DOMAIN label_to_model = {"Response " \o Letters[i] : i \in 1..n}
            /\ \A i \in 1..n :
                   label_to_model["Response " \o Letters[i]] = stage1_results[i].model
            /\ \A k, l \in DOMAIN label_to_model :
                   label_to_model[k] = label_to_model[l] => k = l
            /\ {label_to_model[l] : l \in DOMAIN label_to_model}
                   = {m \in CouncilSet : responses1[m].status = "ok"}
            /\ pc = "done" => result[4].label_to_model = label_to_model

C5_Witness ==
    /\ pc = "done"
    /\ Len(stage1_results) = 2
    /\ responses1[COUNCIL_MODELS[1]].status = "null"
    /\ result[4].label_to_model =
           ("Response A" :> COUNCIL_MODELS[2]) @@ ("Response B" :> COUNCIL_MODELS[3])

\* C6: the Stage 1 result holds exactly one entry for each council model whose
\* call succeeded and none for a model whose call failed, each entry carries
\* its own model's name and content, and the entries stand in COUNCIL_MODELS
\* order, in whatever order the calls returned.
C6_Stage1Results ==
    (pc \in {"stage2", "stage3", "done"}) =>
        /\ {stage1_results[i].model : i \in 1..Len(stage1_results)}
               = {m \in CouncilSet : responses1[m].status = "ok"}
        /\ Len(stage1_results) = Cardinality({m \in CouncilSet : responses1[m].status = "ok"})
        /\ \A i \in 1..Len(stage1_results) :
               /\ responses1[stage1_results[i].model].status = "ok"
               /\ stage1_results[i].response = responses1[stage1_results[i].model].content
        /\ \A i, j \in 1..Len(stage1_results) :
               i < j => ModelIndex(stage1_results[i].model) < ModelIndex(stage1_results[j].model)
        /\ pc = "done" => result[1] = stage1_results

C6_Witness ==
    /\ pc = "done"
    /\ responses1[COUNCIL_MODELS[2]].status = "null"
    /\ Len(result[1]) = 2
    /\ result[1][1].model = COUNCIL_MODELS[1]
    /\ result[1][2].model = COUNCIL_MODELS[3]
    /\ result[1][1].response # result[1][2].response

\* C7: when Stage 1 is non-empty the ranking prompt goes to every model of
\* COUNCIL_MODELS, once each and to no other, whether or not the model answered
\* in Stage 1; the prompt every ranker gets holds every Stage 1 answer under
\* its label, the ranker's own answer included.
C7_RankingGoesToAll ==
    Labelled =>
        /\ Len(QueriesAt(2)) = NumModels
        /\ \A i \in 1..NumModels : QueriesAt(2)[i].model = COUNCIL_MODELS[i]
        /\ \A m \in CouncilSet : responses2[m].status # "idle"
        /\ \A i \in 1..Len(QueriesAt(2)) :
               LET shown == QueriesAt(2)[i].messages.responses
               IN  /\ Len(shown) = Len(stage1_results)
                   /\ \A k \in 1..Len(shown) :
                          /\ label_to_model[shown[k].label] = stage1_results[k].model
                          /\ shown[k].response = stage1_results[k].response
                   /\ responses1[QueriesAt(2)[i].model].status = "ok" =>
                          \E k \in 1..Len(shown) :
                              /\ label_to_model[shown[k].label] = QueriesAt(2)[i].model
                              /\ shown[k].response = responses1[QueriesAt(2)[i].model].content
        /\ pc \in {"stage3", "done"} =>
               {stage2_results[i].model : i \in 1..Len(stage2_results)}
                   = {m \in CouncilSet : responses2[m].status = "ok"}

\* A model that failed in Stage 1 is a ranker in the Stage 2 result, and a
\* model that answered has ranked its own answer.
C7_Witness ==
    /\ pc = "done"
    /\ responses1[COUNCIL_MODELS[1]].status = "null"
    /\ \E i \in 1..Len(result[2]) :
           /\ result[2][i].model = COUNCIL_MODELS[1]
           /\ result[2][i].parsed_ranking # <<>>
    /\ \E i \in 1..Len(result[2]) : \E k \in 1..Len(result[2][i].parsed_ranking) :
           /\ result[2][i].parsed_ranking[k] \in DOMAIN label_to_model
           /\ label_to_model[result[2][i].parsed_ranking[k]] = result[2][i].model

\* The rankers whose call succeeded and whose text holds no Response <Letter>
\* token anywhere.
Tokenless == {m \in CouncilSet :
                 /\ responses2[m].status = "ok"
                 /\ \A k \in 1..Len(responses2[m].content) :
                        ~IsResponse(responses2[m].content[k])}

WithoutModel(s2, m) == SelectSeq(s2, LAMBDA e : e.model # m)

\* C8: a ranker whose Stage 2 call succeeded with a text that holds no
\* Response <Letter> token has exactly one Stage 2 entry, with its raw text
\* and an empty parsed ranking; nothing is raised, and the aggregate is the one
\* computed without that ranker.
C8_UnparseableRanking ==
    /\ pc # "raised"
    /\ pc \in {"stage3", "done"} =>
          \A m \in Tokenless :
              /\ Len(SelectSeq(stage2_results, LAMBDA e : e.model = m)) = 1
              /\ \A i \in 1..Len(stage2_results) :
                     stage2_results[i].model = m =>
                         /\ stage2_results[i].parsed_ranking = <<>>
                         /\ stage2_results[i].ranking = responses2[m].content
              /\ aggregate_rankings =
                     calculate_aggregate_rankings(WithoutModel(stage2_results, m), label_to_model)
              /\ pc = "done" =>
                     /\ result[2] = stage2_results
                     /\ result[4].aggregate_rankings = aggregate_rankings

C8_Witness ==
    /\ pc = "done"
    /\ Cardinality(Tokenless) = 1
    /\ Len(result[2]) = NumModels
    /\ Len(result[4].aggregate_rankings) >= 2

\* C9: in one run each council model is queried exactly once in Stage 1; when
\* Stage 1 is non-empty each council model is queried exactly once in Stage 2
\* and the chairman exactly once in Stage 3, and otherwise neither is queried;
\* no other query is made and none is repeated after a failure, so a run makes
\* at most 2N + 1 queries.
C9_QueriedOnce ==
    /\ Len(queries) <= 2 * NumModels + 1
    /\ \A i \in 1..Len(queries) :
           /\ queries[i].stage \in {1, 2, 3}
           /\ queries[i].stage \in {1, 2} => queries[i].model \in CouncilSet
           /\ queries[i].stage = 3 => queries[i].model = CHAIRMAN_MODEL
    /\ \A m \in CouncilSet :
           /\ Len(QueriesTo(1, m)) = (IF pc = "start" THEN 0 ELSE 1)
           /\ Len(QueriesTo(2, m)) = (IF Labelled THEN 1 ELSE 0)
    /\ Len(QueriesAt(3)) =
           (IF pc \in {"stage3", "done"} /\ stage1_results # <<>> THEN 1 ELSE 0)
    /\ pc = "done" =>
           Len(queries) = (IF stage1_results = <<>> THEN NumModels ELSE 2 * NumModels + 1)

C9_Witness ==
    /\ pc = "done"
    /\ Len(queries) = 2 * NumModels + 1
    /\ \E m \in CouncilSet : responses1[m].status = "null"
    /\ \E m \in CouncilSet : responses2[m].status = "null"
    /\ chairman.status = "null"

\* C27: when Stage 1 gave responses and every ranking call of Stage 2
\* failed, the run goes on: stage2 and aggregate_rankings are empty,
\* label_to_model has a label for every Stage 1 responder, the chairman is
\* queried exactly once, with the Stage 1 responses and no ranking, and the
\* run returns the chairman's result, not the all-failed one.
C27_AllRankingsFailed ==
    (pc \in {"stage3", "done"} /\ stage1_results # <<>> /\ AllNull(responses2)) =>
        /\ stage2_results = <<>>
        /\ aggregate_rankings = <<>>
        /\ Cardinality(DOMAIN label_to_model) = Len(stage1_results)
        /\ \A i \in 1..Len(stage1_results) :
               \E l \in DOMAIN label_to_model : label_to_model[l] = stage1_results[i].model
        /\ Len(QueriesAt(3)) = 1
        /\ QueriesAt(3)[1].model = CHAIRMAN_MODEL
        /\ QueriesAt(3)[1].messages.stage1 =
               [i \in 1..Len(stage1_results) |->
                   [model |-> stage1_results[i].model,
                    response |-> stage1_results[i].response]]
        /\ QueriesAt(3)[1].messages.stage2 = <<>>
        /\ pc = "done" =>
               /\ result[1] = stage1_results
               /\ result[2] = <<>>
               /\ result[3].model = CHAIRMAN_MODEL
               /\ result[4] = [label_to_model |-> label_to_model, aggregate_rankings |-> <<>>]

\* Two models answered, no ranking came back, the chairman answered.
C27_Witness ==
    /\ pc = "done"
    /\ Len(stage1_results) = 2
    /\ AllNull(responses2)
    /\ chairman.status = "ok"
    /\ result[3].response = chairman.content

----------------------------------------------------------------------------
(* Properties of calculate_aggregate_rankings *)

\* Where the model's label stands in the parsed rankings: <<r, k>> says that
\* ranker r's parsed ranking has a label of the model at position k, counted
\* from 1 over every entry of the parsed ranking.
PositionsOf(model, s2, l2m) ==
    UNION {LET parsed == parse_ranking_from_text(s2[r].ranking)
           IN  {<<r, k>> : k \in {k \in 1..Len(parsed) :
                                     /\ parsed[k] \in DOMAIN l2m
                                     /\ l2m[parsed[k]] = model}} :
           r \in 1..Len(s2)}

RECURSIVE SumOfPositions(_)
SumOfPositions(P) ==
    IF P = {} THEN 0
    ELSE LET rk == CHOOSE x \in P : TRUE IN rk[2] + SumOfPositions(P \ {rk})

ExampleRankers ==
    <<[model |-> "ranker", ranking |-> Render(<<RC, RA, RB>>)],
      [model |-> "ranker", ranking |-> Render(<<RA, RC>>)]>>
ExampleMap == (RA :> "m1") @@ (RB :> "m2") @@ (RC :> "m3")

\* C10 as stated: every entry's average_rank is the arithmetic mean itself.
C10_ExactMean ==
    agg_pc = "done" =>
        \A i \in 1..Len(agg_out) :
            LET P == PositionsOf(agg_out[i].model, agg_stage2, agg_label_to_model)
            IN  agg_out[i].average_rank * Cardinality(P) = 100 * SumOfPositions(P)

\* C10, amended: every entry's average_rank is the arithmetic mean of the
\* 1-based positions of the model's label in the parsed rankings, rounded to
\* two decimals (the nearest hundredth), and rankings_count is the number of
\* those positions; a ranker that does not name the model adds nothing.  For
\* rankers [C, A, B] and [A, C] with {A: m1, B: m2, C: m3}: m1 = 1.5, m3 = 1.5,
\* m2 = 3, and m2 is last.
C10_RoundedMean ==
    agg_pc = "done" =>
        /\ \A i \in 1..Len(agg_out) :
               LET P == PositionsOf(agg_out[i].model, agg_stage2, agg_label_to_model)
                   n == Cardinality(P)
                   d == 100 * SumOfPositions(P) - agg_out[i].average_rank * n
               IN  /\ n > 0
                   /\ agg_out[i].rankings_count = n
                   /\ 2 * d <= n
                   /\ 2 * d >= 0 - n
        /\ (agg_stage2 = ExampleRankers /\ agg_label_to_model = ExampleMap) =>
               /\ Len(agg_out) = 3
               /\ \E i \in 1..2 : agg_out[i] =
                      [model |-> "m1", average_rank |-> 150, rankings_count |-> 2]
               /\ \E i \in 1..2 : agg_out[i] =
                      [model |-> "m3", average_rank |-> 150, rankings_count |-> 2]
               /\ agg_out[3] = [model |-> "m2", average_rank |-> 300, rankings_count |-> 1]

\* A mean that is no number of two decimals: positions 1, 2 and 2.
C10_Witness ==
    /\ agg_pc = "done"
    /\ \E i \in 1..Len(agg_out) :
           /\ agg_out[i].rankings_count = 3
           /\ agg_out[i].average_rank = 167
    /\ \E i \in 1..Len(agg_out) : agg_out[i].rankings_count = 1

\* The position at which the model first received a position: ranker, then
\* place in that ranker's parsed ranking.
FirstAt(model, s2, l2m) ==
    LET P == PositionsOf(model, s2, l2m)
    IN  CHOOSE p \in P : \A q \in P : p[1] < q[1] \/ (p[1] = q[1] /\ p[2] <= q[2])

Before(p, q) == p[1] < q[1] \/ (p[1] = q[1] /\ p[2] < q[2])

ParsedOf(r) == parse_ranking_from_text(agg_stage2[r].ranking)

\* C11: a model of the label map has an aggregate entry if and only if its
\* label occurs in some ranker's parsed ranking; no model has two entries;
\* every entry names a model of the label map; a label outside the label
\* map adds no entry (there are exactly as many entries as mentioned models).
C11_AppearsIffMentioned ==
    agg_pc = "done" =>
        LET models == {agg_label_to_model[l] : l \in DOMAIN agg_label_to_model}
            mentioned == {m \in models :
                             PositionsOf(m, agg_stage2, agg_label_to_model) # {}}
        IN  /\ \A m \in models :
                   (\E i \in 1..Len(agg_out) : agg_out[i].model = m) <=> m \in mentioned
            /\ \A i, j \in 1..Len(agg_out) : agg_out[i].model = agg_out[j].model => i = j
            /\ \A i \in 1..Len(agg_out) : agg_out[i].model \in models
            /\ Len(agg_out) = Cardinality(mentioned)

\* A ranker names a label the map does not have, a model of the map is
\* named by nobody, and another is named twice.
C11_Witness ==
    /\ agg_pc = "done"
    /\ \E r \in 1..Len(agg_stage2) : \E k \in 1..Len(ParsedOf(r)) :
           ParsedOf(r)[k] \notin DOMAIN agg_label_to_model
    /\ \E l \in DOMAIN agg_label_to_model :
           \A i \in 1..Len(agg_out) : agg_out[i].model # agg_label_to_model[l]
    /\ \E i \in 1..Len(agg_out) : agg_out[i].rankings_count >= 2

\* C12: the aggregate is sorted by non-decreasing average_rank, and of two
\* entries with equal average_rank the one whose model first received a
\* position earlier (rankers in Stage 2 order, labels in parsed order) comes
\* first.
C12_SortedStable ==
    agg_pc = "done" =>
        \A i, j \in 1..Len(agg_out) :
            i < j =>
                /\ agg_out[i].average_rank <= agg_out[j].average_rank
                /\ agg_out[i].average_rank = agg_out[j].average_rank =>
                       Before(FirstAt(agg_out[i].model, agg_stage2, agg_label_to_model),
                              FirstAt(agg_out[j].model, agg_stage2, agg_label_to_model))

\* Two entries tie, and the sort moved an entry ahead of one inserted before it.
C12_Witness ==
    /\ agg_pc = "done"
    /\ \E i, j \in 1..Len(agg_out) :
           i < j /\ agg_out[i].average_rank = agg_out[j].average_rank
    /\ \E i, j \in 1..Len(agg_out) :
           /\ i < j
           /\ Before(FirstAt(agg_out[j].model, agg_stage2, agg_label_to_model),
                     FirstAt(agg_out[i].model, agg_stage2, agg_label_to_model))

C17_DuplicatesKept ==
    agg_pc = "done" =>
        /\ \A r \in 1..Len(agg_stage2) : \A labels \in AggRankings :
               agg_stage2[r].ranking = Render(labels) => ParsedOf(r) = labels
        /\ \A i \in 1..Len(agg_out) :
               agg_out[i].rankings_count =
                   Cardinality(PositionsOf(agg_out[i].model, agg_stage2, agg_label_to_model))
        /\ (Len(agg_stage2) = 1 /\ agg_stage2[1].ranking = Render(<<RA, RA>>)) =>
               agg_out = <<[model |-> agg_label_to_model[RA], average_rank |-> 150,
                            rankings_count |-> 2]>>

\* One model holds more positions than there are rankers.
C17_Witness ==
    /\ agg_pc = "done"
    /\ \E i \in 1..Len(agg_out) : agg_out[i].rankings_count > Len(agg_stage2)
    /\ \E r \in 1..Len(agg_stage2) : agg_stage2[r].ranking = Render(<<RA, RA>>)

----------------------------------------------------------------------------
(* Properties of parse_ranking_from_text *)

\* The entries of s at the indices that satisfy Test, in order.
Pick(s, Test(_)) ==
    LET idx == SelectSeq([j \in 1..Len(s) |-> j], Test)
    IN  [n \in 1..Len(idx) |-> s[idx[n]]]

\* Every Response <Letter> token of s, in order of appearance.
ResponseTokens(s) == Pick(s, LAMBDA j : IsResponse(s[j]))

\* s[j] is the label of a numbered item: before it optional whitespace,
\* before that a period, before that a digit.
IsNumberedAt(s, j) ==
    /\ IsResponse(s[j])
    /\ \E k \in 2..(j - 1) :
           /\ s[k] = "."
           /\ IsDigit(s[k - 1])
           /\ \A i \in (k + 1)..(j - 1) : IsSpace(s[i])

\* The labels of the numbered items of s, in order of appearance.
NumberedLabels(s) == Pick(s, LAMBDA j : IsNumberedAt(s, j))

\* What a section gives: its numbered items if it has one, else its labels.
SectionResult(s) ==
    IF NumberedLabels(s) # <<>> THEN NumberedLabels(s) ELSE ResponseTokens(s)

MarkersAt(text) == {k \in 1..Len(text) : text[k] = MARKER}
FirstMarker(text) == CHOOSE k \in MarkersAt(text) : \A j \in MarkersAt(text) : k <= j
LastMarker(text) == CHOOSE k \in MarkersAt(text) : \A j \in MarkersAt(text) : k >= j

\* All of the text that follows the marker at k.
TextAfter(text, k) == SubSeq(text, k + 1, Len(text))
\* The text before the first marker.
TextBefore(text) == SubSeq(text, 1, FirstMarker(text) - 1)
\* The text from the first marker up to the next marker or the end.
Section(text) ==
    LET later == {k \in MarkersAt(text) : k > FirstMarker(text)}
        stop == IF later = {} THEN Len(text) + 1
                ELSE CHOOSE k \in later : \A j \in later : k <= j
    IN  SubSeq(text, FirstMarker(text) + 1, stop - 1)

\* C14 as stated: for a text with the marker, once or several times, the
\* result is what all of the text after the marker gives (the marker being
\* the first one or the last one), every Response token there being
\* eligible, and nothing before the marker counts.
C14_AllTextAfterMarker ==
    (parse_pc = "done" /\ MarkersAt(parse_text) # {}) =>
        \/ parse_out = SectionResult(TextAfter(parse_text, FirstMarker(parse_text)))
        \/ parse_out = SectionResult(TextAfter(parse_text, LastMarker(parse_text)))

\* C15: within the section after the marker, if a numbered item occurs the
\* result is exactly the labels of the numbered items in order of appearance
\* (bare labels of the section are ignored); if none occurs the result is
\* every Response token of the section in order of appearance.  The text
\* "FINAL RANKING:\n1. Response C\n2. Response A" gives [C, A].
C15_NumberedItemsFirst ==
    /\ (parse_pc = "done" /\ MarkersAt(parse_text) # {}) =>
           LET section == Section(parse_text)
           IN  /\ NumberedLabels(section) # <<>> => parse_out = NumberedLabels(section)
               /\ NumberedLabels(section) = <<>> => parse_out = ResponseTokens(section)
    /\ (parse_pc = "done"
           /\ parse_text = <<MARKER, "\n", "1", ".", " ", RC, "\n", "2", ".", " ", RA>>) =>
           parse_out = <<RC, RA>>

\* A section with a numbered item and a bare label beside it.
C15_Witness ==
    /\ parse_pc = "done"
    /\ MarkersAt(parse_text) # {}
    /\ NumberedLabels(Section(parse_text)) # <<>>
    /\ Len(ResponseTokens(Section(parse_text))) > Len(NumberedLabels(Section(parse_text)))
    /\ parse_out = NumberedLabels(Section(parse_text))

\* C16: without the marker the result is every Response token of the text in
\* order of appearance, empty when there is none; with the marker and no
\* token in the section after it the result is empty, also when tokens
\* stand before the marker.  "Response B ... Response A" without a marker
\* gives [B, A]; a text without any label gives [].
C16_WholeTextOnlyWithoutMarker ==
    parse_pc = "done" =>
        /\ MarkersAt(parse_text) = {} => parse_out = ResponseTokens(parse_text)
        /\ (MarkersAt(parse_text) # {} /\ ResponseTokens(Section(parse_text)) = <<>>) =>
               parse_out = <<>>
        /\ parse_text = <<RB, "x", RA>> => parse_out = <<RB, RA>>
        /\ parse_text = <<"x", "x">> => parse_out = <<>>

\* A label before the marker, none after it, and an empty result.
C16_Witness ==
    /\ parse_pc = "done"
    /\ MarkersAt(parse_text) # {}
    /\ ResponseTokens(TextBefore(parse_text)) # <<>>
    /\ ResponseTokens(TextAfter(parse_text, FirstMarker(parse_text))) = <<>>
    /\ parse_out = <<>>

----------------------------------------------------------------------------
(* Properties of build_conversation_context *)

\* The recency limit L in pairs: the caller's, or the configured one.
PairsLimit == IF ctx_limit = <<>> THEN CONVERSATION_HISTORY_LIMIT ELSE ctx_limit[1]

\* The last n and the first n messages of h.
LastMessages(h, n) == [i \in 1..n |-> h[Len(h) - n + i]]
FirstMessages(h, n) == [i \in 1..n |-> h[i]]

SystemMessages(window) ==
    {i \in 1..Len(window) : "role" \in DOMAIN window[i] /\ window[i].role = "system"}

\* C18: a history of at most L pairs (at most 2L messages) is returned as it
\* is, same messages in the same order and no summary message, at the call's
\* first step, with no call of the Summarizer and no model query, whatever
\* summarize_older is.  8 pairs with limit 10 come back unchanged.
C18_ShortHistoryUnchanged ==
    (ctx_pc \in {"summarizing", "done"} /\ Len(ctx_history) <= 2 * PairsLimit) =>
        /\ ctx_pc = "done"
        /\ ctx_out = ctx_history
        /\ ctx_summarized = <<>>
        /\ ctx_queries = <<>>
        /\ ctx_summary = <<>>

\* 8 pairs under the configured limit, summarization asked for.
C18_Witness ==
    /\ ctx_pc = "done"
    /\ ctx_limit = <<>>
    /\ ctx_summarize_older
    /\ Len(ctx_history) = 16
    /\ ctx_out = ctx_history

\* C19 as stated: for a limit L >= 0 given by the caller and a history of
\* more than L pairs, with summarize_older false the result is exactly the
\* last 2L messages in order, without a summary message and without a model
\* call.
C19_TruncatesToLastPairs ==
    (/\ ctx_pc = "done"
     /\ ctx_limit # <<>>
     /\ PairsLimit >= 0
     /\ Len(ctx_history) > 2 * PairsLimit
     /\ ~ctx_summarize_older) =>
        /\ ctx_out = LastMessages(ctx_history, 2 * PairsLimit)
        /\ SystemMessages(ctx_out) = {}
        /\ ctx_summarized = <<>>
        /\ ctx_queries = <<>>

\* C20: for a history of more than L pairs with summarize_older true, when
\* the Summarizer returned a summary the result is one system message
\* holding that summary, then the last 2L messages as they are and in order;
\* the Summarizer was called once, with exactly the messages before those.
\* 30 pairs with limit 10 give the summary message and 20 messages.
C20_SummaryThenRecent ==
    (/\ ctx_pc = "done"
     /\ ctx_summarize_older
     /\ Len(ctx_history) > 2 * PairsLimit
     /\ ctx_summary # <<>>) =>
        /\ ctx_out =
               <<[role |-> "system",
                  content |-> "Previous conversation summary: " \o ctx_summary[1]]>>
               \o LastMessages(ctx_history, 2 * PairsLimit)
        /\ SystemMessages(ctx_out) = {1}
        /\ ctx_summarized =
               <<FirstMessages(ctx_history, Len(ctx_history) - 2 * PairsLimit)>>
        /\ (Len(ctx_history) = 60 /\ ctx_limit = <<>>) => Len(ctx_out) = 21

\* 30 pairs under the configured limit, summarized by a model.
C20_Witness ==
    /\ ctx_pc = "done"
    /\ ctx_summarize_older
    /\ Len(ctx_history) = 60
    /\ ctx_limit = <<>>
    /\ ctx_summary = <<"The summary.">>
    /\ Len(ctx_out) = 21

\* The Summarizer was called and raised: it never returned a summary.
SummarizerRaised == ctx_pc = "done" /\ ctx_summarized # <<>> /\ ctx_summary = <<>>

\* The last n messages of h, all of h when it has fewer.
LastUpTo(h, n) == IF Len(h) <= n THEN h ELSE LastMessages(h, n)

\* C21: when the Summarizer raises for a history of more than L pairs, the
\* call still returns, and what it returns is exactly the most recent L + 5
\* pairs, the last 2(L + 5) messages or the whole history when it is
\* shorter, with no summary message.
C21_RaiseGivesWiderWindow ==
    SummarizerRaised =>
        /\ Len(ctx_history) > 2 * PairsLimit
        /\ ctx_out = LastUpTo(ctx_history, 2 * (PairsLimit + 5))
        /\ SystemMessages(ctx_out) = {}

\* The Summarizer raised on a history longer than the wider window.
C21_Witness ==
    /\ SummarizerRaised
    /\ Len(ctx_history) > 2 * (PairsLimit + 5)
    /\ Len(ctx_out) = 2 * (PairsLimit + 5)

\* The history messages that the window does not hold.
Absent == {i \in 1..Len(ctx_history) : ctx_history[i] \notin Range(ctx_out)}

\* C22 as stated: a window returned with summarize_older true holds every
\* history message as it is, or else exactly one system message, placed
\* first, for the absent ones; it never holds more than one system message.
C22_NoSilentDrop ==
    (ctx_pc = "done" /\ ctx_summarize_older) =>
        /\ Absent = {} \/ SystemMessages(ctx_out) = {1}
        /\ Cardinality(SystemMessages(ctx_out)) <= 1

\* C22, amended: the same, unless the Summarizer raised; then the window is
\* the last 2(L + 5) messages without a system message, and the messages
\* before those are absent with nothing in their place.
C22_NoSilentDropUnlessRaised ==
    (ctx_pc = "done" /\ ctx_summarize_older) =>
        /\ ~SummarizerRaised => (Absent = {} \/ SystemMessages(ctx_out) = {1})
        /\ SummarizerRaised =>
               /\ SystemMessages(ctx_out) = {}
               /\ Absent = 1..(Len(ctx_history) - 2 * (PairsLimit + 5))
        /\ Cardinality(SystemMessages(ctx_out)) <= 1
        /\ \A i \in 1..Len(ctx_history) \ Absent :
               \E k \in 1..Len(ctx_out) : ctx_out[k] = ctx_history[i]

\* Messages are absent and one system message stands first in their place.
C22_Witness ==
    /\ ctx_pc = "done"
    /\ ctx_summarize_older
    /\ ~SummarizerRaised
    /\ Absent # {}
    /\ SystemMessages(ctx_out) = {1}
    /\ Len(ctx_out) >= 3

----------------------------------------------------------------------------
(* Properties of summarize_conversation_segment *)

\* The chain as configured: the primary model, then the fallback models.
Chain == <<SUMMARIZATION_MODEL>> \o SUMMARIZATION_FALLBACK_MODELS

\* A call that gave non-empty content.
Succeeded(response) == response.status = "ok" /\ Len(response.content) > 0

\* C23: the Summarizer queries the models of the chain in their order, the
\* primary model first, one at a time: the i-th query goes to the i-th model
\* and is made only when every earlier query has come back failed, raised or
\* with empty content; no model is queried twice; once a query comes back
\* with non-empty content the Summarizer returns that content, stripped, and
\* queries no further model.
C23_ChainInOrder ==
    /\ Len(ctx_queries) <= Len(Chain)
    /\ \A i \in 1..Len(ctx_queries) : ctx_queries[i].model = Chain[i]
    /\ \A i, j \in 1..Len(ctx_queries) :
           ctx_queries[i].model = ctx_queries[j].model => i = j
    /\ Len(ctx_responses) <= Len(ctx_queries)
    /\ Len(ctx_queries) <= Len(ctx_responses) + 1
    /\ \A i \in 1..Len(ctx_responses) :
           i < Len(ctx_queries) => ~Succeeded(ctx_responses[i])
    /\ \A i \in 1..Len(ctx_responses) :
           Succeeded(ctx_responses[i]) =>
               /\ i = Len(ctx_queries)
               /\ ctx_pc = "done"
               /\ ctx_summary = <<Strip(ctx_responses[i].content)>>
    /\ ctx_pc = "summarizing" => Len(ctx_queries) = Len(ctx_responses) + 1

\* The primary model failed, the first fallback raised, the second answered
\* with content that had whitespace around it.
C23_Witness ==
    /\ ctx_pc = "done"
    /\ Len(ctx_queries) = 3
    /\ ctx_responses[1] = Null
    /\ ctx_responses[2] = Raised
    /\ ctx_responses[3] = Ok(" A summary. \n")
    /\ ctx_summary = <<"A summary.">>

\* The messages the Summarizer is given: those before the last 2L.
Older == FirstMessages(ctx_history, Len(ctx_history) - 2 * PairsLimit)

\* Every model of the chain was queried and none gave content.
ChainExhausted ==
    /\ Len(ctx_responses) = Len(Chain)
    /\ \A i \in 1..Len(ctx_responses) : ~Succeeded(ctx_responses[i])

\* What a message adds to the model-free summary: its content, or the first
\* 50 characters of it and an ellipsis.
Excerpt(msg) ==
    IF Len(msg.content) > 50 THEN SubSeq(msg.content, 1, 50) \o "..." ELSE msg.content

\* The model-free summary of the messages given, at most five.
SummaryOfFive(five) ==
    IF \E k \in 1..Len(five) : "content" \notin DOMAIN five[k]
    THEN "Previous conversation summary unavailable"
    ELSE "Conversation covers: " \o JoinComma([k \in 1..Len(five) |-> Excerpt(five[k])])

\* C24: when every model of the chain failed, raised or gave empty content,
\* the Summarizer still returns, and its summary is a function of the first
\* five older messages alone, each giving at most its first 50 characters
\* (and an ellipsis): equal first fives give equal summaries.
C24_FallbackSummary ==
    ChainExhausted =>
        /\ ctx_pc = "done"
        /\ ctx_summary =
               <<SummaryOfFive(FirstMessages(Older, IF Len(Older) < 5 THEN Len(Older) ELSE 5))>>
        /\ Len(ctx_summary[1]) <= 21 + 5 * 53 + 4 * 2
        /\ ctx_out[1] = [role |-> "system",
                         content |-> "Previous conversation summary: " \o ctx_summary[1]]

\* More than five older messages, and one of more than 50 characters.
C24_Witness ==
    /\ ChainExhausted
    /\ \/ Len(Older) > 5
       \/ \E k \in 1..Len(Older) : "content" \in DOMAIN Older[k] /\ Len(Older[k].content) > 50
    /\ ctx_summary # <<>>
    /\ ctx_summary[1] # "Previous conversation summary unavailable"

\* A message as the Summarizer writes it, and how many characters that is.
Line(msg) == (IF msg.role = "user" THEN "User" ELSE "Assistant")
             \o ": " \o msg.content \o "\n\n"
LineChars(msg) == (IF msg.role = "user" THEN 4 ELSE 9) + 2 + Len(msg.content) + 2

RECURSIVE LinesOf(_, _)
LinesOf(messages, k) == IF k = 0 THEN "" ELSE LinesOf(messages, k - 1) \o Line(messages[k])

RECURSIVE CharsOf(_, _)
CharsOf(messages, k) ==
    IF k = 0 THEN 0 ELSE CharsOf(messages, k - 1) + LineChars(messages[k])

\* The first k older messages can be written and their text is within the budget.
WithinBudget(k) ==
    /\ \A j \in 1..k : {"role", "content"} \subseteq DOMAIN Older[j]
    /\ CharsOf(Older, k) <= 8000

\* The longest prefix of the older messages that is within the budget.
Included ==
    LET within == {k \in 0..Len(Older) : WithinBudget(k)}
    IN  CHOOSE k \in within : \A j \in within : j <= k

\* C25: the conversation text of every query of the Summarizer is the older
\* messages written in order up to, and not including, the first one that
\* would take the text over 8000 characters: a prefix, never longer than
\* the budget, with that message and every later one left out, those that
\* would still fit as well.
C25_PrefixWithinBudget ==
    ctx_queries # <<>> =>
        LET text == LinesOf(Older, Included)
            prompt == SummarizationPrompt(text)
        IN  /\ Len(text) <= 8000
            /\ \A q \in 1..Len(ctx_queries) :
                   ctx_queries[q].messages = <<[role |-> "user", content |-> prompt]>>

\* The second message does not fit, and the third, which would, is left out.
C25_Witness ==
    /\ ctx_queries # <<>>
    /\ Included = 1
    /\ Len(Older) >= 3
    /\ Len(LinesOf(Older, 1)) + Len(Line(Older[2])) > 8000
    /\ Len(LinesOf(Older, 1)) + Len(Line(Older[3])) <= 8000

----------------------------------------------------------------------------
(* Properties of get_conversation_history *)

\* The last call was get_conversation_history on a stored conversation.
HistoryCalled ==
    /\ store_last.op = "get_conversation_history"
    /\ files[store_last.id] # NoFile

Stored == files[store_last.id].messages

\* The positions of the stored user messages, in storage order.
UserPositions == {i \in 1..Len(Stored) : Stored[i].role = "user"}

\* The k-th smallest element of a set of positions.
RECURSIVE Nth(_, _)
Nth(positions, k) ==
    LET least == CHOOSE i \in positions : \A j \in positions : i <= j
    IN  IF k = 1 THEN least ELSE Nth(positions \ {least}, k - 1)

\* The stored message at position i is a reply to show: an assistant message
\* with a stage3 response, directly after a user message.
IsReply(i) ==
    /\ i > 1
    /\ i <= Len(Stored)
    /\ Stored[i].role = "assistant"
    /\ Stored[i - 1].role = "user"
    /\ "response" \in DOMAIN Stored[i].stage3

\* What the user message at position i gives: its content and, when a reply
\* directly follows, the reply's stage3 response.
Exchange(i) ==
    <<[role |-> "user", content |-> Stored[i].content]>> \o
    (IF IsReply(i + 1)
     THEN <<[role |-> "assistant", content |-> Stored[i + 1].stage3.response]>>
     ELSE <<>>)

\* The exchanges of the first k user messages, in storage order.
RECURSIVE FirstExchanges(_)
FirstExchanges(k) ==
    IF k = 0 THEN <<>>
    ELSE FirstExchanges(k - 1) \o Exchange(Nth(UserPositions, k))

\* The exchanges of the last k user messages, in storage order.
RECURSIVE LastExchanges(_)
LastExchanges(k) ==
    IF k = 0 THEN <<>>
    ELSE LastExchanges(k - 1) \o
         Exchange(Nth(UserPositions, Cardinality(UserPositions) - k + 1))

AllExchanges == FirstExchanges(Cardinality(UserPositions))

IsPrefix(a, b) == Len(a) <= Len(b) /\ a = SubSeq(b, 1, Len(a))

\* C26: get_conversation_history returns {role, content} entries only, in
\* storage order: called without a limit, every stored user message gives a
\* user entry with its content, followed by an assistant entry holding the
\* stage3 response when an assistant message with one comes directly after
\* it, and nothing else (no stage1 or stage2 field, no assistant message that
\* does not follow a user message); called with a limit it returns a prefix of
\* that list; a conversation that is not stored gives the empty list.
C26_HistoryIsUserAndStage3 ==
    store_last.op = "get_conversation_history" =>
        /\ files[store_last.id] = NoFile => store_last.value = <<>>
        /\ HistoryCalled =>
               /\ \A k \in 1..Len(store_last.value) :
                      DOMAIN store_last.value[k] = {"role", "content"}
               /\ ~Truthy(store_last.limit) => store_last.value = AllExchanges
               /\ IsPrefix(store_last.value, AllExchanges)

\* A stored conversation that starts with an assistant message, followed by a
\* user message, its reply and an assistant message without a response: the
\* history is the user message and the reply.
C26_Witness ==
    /\ HistoryCalled
    /\ store_last.limit = <<>>
    /\ Len(Stored) = 4
    /\ Stored[1].role = "assistant"
    /\ Stored[2].role = "user"
    /\ IsReply(3)
    /\ Stored[4].role = "assistant"
    /\ "response" \notin DOMAIN Stored[4].stage3
    /\ store_last.value = <<[role |-> "user", content |-> Stored[2].content],
                            [role |-> "assistant", content |-> Stored[3].stage3.response]>>

Min(a, b) == IF a <= b THEN a ELSE b

\* C28: with a limit n > 0, get_conversation_history returns the exchanges of
\* the first n stored user messages (of all of them when there are fewer), in
\* storage order, each with its stage3 reply when one directly follows: at
\* most n user entries; with no limit or limit 0 it returns every exchange.
C28_LimitKeepsFirstExchanges ==
    HistoryCalled =>
        IF Truthy(store_last.limit)
        THEN /\ store_last.value =
                    FirstExchanges(Min(store_last.limit[1], Cardinality(UserPositions)))
             /\ Cardinality({k \in 1..Len(store_last.value) :
                                 store_last.value[k].role = "user"}) <= store_last.limit[1]
        ELSE store_last.value = AllExchanges

\* Two stored exchanges with different questions and limit 1: the history is
\* the first exchange, which is not the most recent one.
C28_Witness ==
    /\ HistoryCalled
    /\ store_last.limit = <<1>>
    /\ Cardinality(UserPositions) = 2
    /\ Len(Stored) = 4
    /\ IsReply(2)
    /\ IsReply(4)
    /\ Stored[1].content # Stored[3].content
    /\ store_last.value = Exchange(1)
    /\ store_last.value # LastExchanges(1)

----------------------------------------------------------------------------
(* Properties of the stored conversations *)

AppendingCalls == {"add_user_message", "add_assistant_message"}
UpdatingCalls == AppendingCalls \cup {"update_conversation_title"}

\* What a stored conversation holds is what was appended to it since it
\* was created, in call order, under the id and creation time it was given.
KeepsAppended ==
    \A id \in ConvIds :
        IF store_log[id] = <<>>
        THEN files[id] = NoFile
        ELSE /\ files[id] # NoFile
             /\ files[id].id = id
             /\ files[id].created_at = store_log[id][1].created_at
             /\ files[id].messages = store_log[id][1].appended

\* One call of add_user_message, add_assistant_message or
\* update_conversation_title.
UpdatingStep ==
    LET id == store_last'.id
    IN  store_last'.op \in UpdatingCalls =>
            IF files[id] = NoFile
            THEN /\ store_last'.outcome = "ValueError"
                 /\ files' = files
            ELSE /\ store_last'.outcome = "returned"
                 /\ files'[id] # NoFile
                 /\ files'[id].id = files[id].id
                 /\ files'[id].created_at = files[id].created_at
                 /\ \A other \in ConvIds \ {id} : files'[other] = files[other]
                 /\ IF store_last'.op \in AppendingCalls
                    THEN /\ Len(files'[id].messages) = Len(files[id].messages) + 1
                         /\ IsPrefix(files[id].messages, files'[id].messages)
                         /\ files'[id].title = files[id].title
                    ELSE files'[id].messages = files[id].messages

\* C29: after create_conversation(id), calls of add_user_message,
\* add_assistant_message and update_conversation_title on that id leave a
\* record whose messages are exactly the appended messages in call order,
\* with id and created_at unchanged; on an id that has no stored record
\* (never created, or deleted) each of these calls raises ValueError and
\* leaves every stored record as it was, creating none.
C29_AppendsInCallOrder == []KeepsAppended /\ [][UpdatingStep]_vars

\* A conversation created, deleted and created again, then given a question,
\* an answer and a second question and retitled; a call on the id that was
\* never created has just raised.
C29_Witness ==
    /\ store_last = RaisedValueError("add_user_message", "c2")
    /\ files["c2"] = NoFile
    /\ files["c1"] # NoFile
    /\ store_clock = 2
    /\ files["c1"].created_at = 2
    /\ files["c1"].title = "A title"
    /\ Len(files["c1"].messages) = 3
    /\ files["c1"].messages[1] = [role |-> "user", content |-> "q2"]
    /\ files["c1"].messages[2].role = "assistant"
    /\ files["c1"].messages[3] = [role |-> "user", content |-> "q1"]

====
